---- MODULE Spec2Model ----
(***************************************************************************)
(* Model of the NBA question-answering service: the ask endpoint, the      *)
(* question router, the stats (text-to-SQL) pipeline, the news pipeline,   *)
(* the betting branch as the router sees it, and the scores cache.         *)
(*                                                                         *)
(* Texts are sequences of one-character strings, so that strip(), upper()  *)
(* and the regular-expression search of the safety check are computed as   *)
(* the Python code computes them.                                          *)
(***************************************************************************)
EXTENDS Integers, Sequences, FiniteSets, TLC

(***************************************************************************)
(* Bounds of the model                                                     *)
(***************************************************************************)
\* result-row counts the query port may return are 0, 1 and MaxRows
MaxRows == 26
\* number of get_scores calls of one behaviour
MaxCalls == 3
\* number of concurrent callers of get_scores
NumCallers == 2
\* the game-preview requests in flight at once
MaxRequests == 2
\* last instant of the wall clock
MaxClock == 180

(***************************************************************************)
(* Python values                                                           *)
(***************************************************************************)
None == [none |-> TRUE]
Some(v) == [none |-> FALSE, v |-> v]

Min(S) == CHOOSE x \in S : \A y \in S : x <= y
Max(S) == CHOOSE x \in S : \A y \in S : y <= x

\* dict.get(k, default)
get(d, k, default) == IF k \in DOMAIN d THEN d[k] ELSE default

(***************************************************************************)
(* str methods                                                             *)
(***************************************************************************)
LowerLetters ==
  <<"a","b","c","d","e","f","g","h","i","j","k","l","m",
    "n","o","p","q","r","s","t","u","v","w","x","y","z">>
UpperLetters ==
  <<"A","B","C","D","E","F","G","H","I","J","K","L","M",
    "N","O","P","Q","R","S","T","U","V","W","X","Y","Z">>
DigitChars == {"0","1","2","3","4","5","6","7","8","9"}
Whitespace == {" ", "\n", "\t", "\r"}
\* the grave accent of a Markdown code fence (the character itself cannot be
\* written in a TLA+ string, so this atom stands for it)
Backtick == "<grave>"

IsLower(c) == \E i \in 1..Len(LowerLetters) : LowerLetters[i] = c
IsUpper(c) == \E i \in 1..Len(UpperLetters) : UpperLetters[i] = c

upper_char(c) ==
  IF IsLower(c)
    THEN UpperLetters[CHOOSE i \in 1..Len(LowerLetters) : LowerLetters[i] = c]
    ELSE c

\* str.upper()
upper(s) == [i \in 1..Len(s) |-> upper_char(s[i])]

\* str.strip(chars)
strip_chars(s, cs) ==
  LET keep == {i \in 1..Len(s) : s[i] \notin cs}
  IN  IF keep = {} THEN <<>> ELSE SubSeq(s, Min(keep), Max(keep))

\* str.strip()
strip(s) == strip_chars(s, Whitespace)

\* str.startswith(p)
startswith(s, p) == Len(s) >= Len(p) /\ SubSeq(s, 1, Len(p)) = p

(***************************************************************************)
(* The safety check of generated SQL                                       *)
(***************************************************************************)
UNSAFE_KEYWORDS ==
  { <<"I","N","S","E","R","T">>,
    <<"U","P","D","A","T","E">>,
    <<"D","E","L","E","T","E">>,
    <<"D","R","O","P">>,
    <<"A","L","T","E","R">>,
    <<"T","R","U","N","C","A","T","E">>,
    <<"C","R","E","A","T","E">>,
    <<"G","R","A","N","T">>,
    <<"R","E","V","O","K","E">>,
    <<"C","O","P","Y">>,
    <<"E","X","E","C","U","T","E">> }

\* a letter outside ASCII (written as an atom), as an example of the Unicode
\* word characters a str pattern knows
EAcute == "<e-acute>"
OtherLetters == {EAcute}

\* \w of the regular expression (a str pattern: Unicode word characters)
IsWordChar(c) ==
  IsLower(c) \/ IsUpper(c) \/ c \in DigitChars \/ c = "_" \/ c \in OtherLetters

\* \b before position i / after position j of s (the keyword's own characters
\* are word characters, so a boundary is a non-word neighbour or the text's end)
BoundaryBefore(s, i) == i = 1 \/ ~IsWordChar(s[i - 1])
NoBoundaryAfter(s, j) == TRUE
BoundaryAfter(s, j) == j = Len(s) \/ ~IsWordChar(s[j + 1])

\* re.IGNORECASE: the keyword matches in any letter case
MatchesKeyword(w) == upper(w) \in UNSAFE_KEYWORDS

\* _UNSAFE_PATTERN.search(sql) is not None
UNSAFE_PATTERN_search(s) ==
  \E i \in 1..Len(s) : \E j \in i..Len(s) :
     /\ MatchesKeyword(SubSeq(s, i, j))
     /\ BoundaryBefore(s, i)
     /\ BoundaryAfter(s, j)

\* the generated text with surrounding blanks and code-fence quotes stripped,
\* then a leading "sql" tag dropped
CleanSql(t) ==
  LET a == strip(strip_chars(strip(t), {Backtick}))
  IN  IF startswith(a, <<"s","q","l">>) THEN strip(SubSeq(a, 4, Len(a))) ELSE a

(***************************************************************************)
(* Texts the ports return in the model                                     *)
(***************************************************************************)
\* the five categories, as the tokens classify_question compares with
STATS == <<"S","T","A","T","S">>
NEWS == <<"N","E","W","S">>
MIXED == <<"M","I","X","E","D">>
BETTING == <<"B","E","T","T","I","N","G">>
OFF_TOPIC == <<"O","F","F","_","T","O","P","I","C">>
CATEGORIES == {STATS, NEWS, MIXED, BETTING, OFF_TOPIC}

\* what the generation port may answer to the classification prompt
ClassifyTexts ==
  { <<"S","T","A","T","S">>,
    <<" ","n","e","w","s","\n">>,
    <<"M","i","x","e","d">>,
    <<"B","E","T","T","I","N","G">>,
    <<"o","f","f","_","t","o","p","i","c">>,
    <<"O","F","F"," ","T","O","P","I","C">>,
    <<"B","E","T","T","I","N","G",".">>,
    <<>> }

\* what the generation port may answer to the rewriting prompts
ResolveTexts == { <<" ","w","h","o","\n">> }
NormalizeTexts == { <<" ","p","p","g"," ">> }

\* what the generation port may answer to the text-to-SQL prompts
SqlTexts ==
  { <<"S","E","L","E","C","T"," ","1">>,
    <<Backtick,Backtick,Backtick,"s","q","l","\n","S","E","L","E","C","T"," ","2","\n",Backtick,Backtick,Backtick>>,
    <<"D","R","O","P"," ","t">>,
    <<Backtick,Backtick,Backtick,"s","q","l","\n","d","e","l","e","t","e"," ","x",Backtick,Backtick,Backtick>>,
    <<"S","E","L","E","C","T"," ","c","r","e","a","t","e","d","_","a","t">> }

\* answers are sequences of text parts; the empty text is <<>>
FormatAnswers == { <<"stats answer">> }
SummaryAnswers == { <<"news summary">>, <<>> }
BettingAnswers == { <<"betting analysis">> }

\* messages of the errors the query port may raise
ExecErrors == { "syntax error", "relation does not exist" }

Questions == { <<"h","e","s"," ","g","o","o","d","?">> }
Histories == { <<>>, <<[role |-> "user", content |-> "Tatum"]>> }

\* fixed answers of the code
READ_ONLY_ANSWER ==
  <<"I can only run read-only queries. Your question would require modifying the database.">>
TIMEOUT_ANSWER ==
  <<"The query took too long to execute. Try a more specific question.">>
OFF_TOPIC_ANSWER ==
  <<"I'm an NBA assistant - my job is for NBA purposes only! Ask me about player stats, game scores, standings, trades, or league news.">>
NO_NEWS_ANSWER ==
  <<"I don't have any recent news articles to answer that question. Try running sync_news.py first to ingest news.">>
APOLOGY_ANSWER ==
  <<"Sorry, something went wrong. Please try again in a moment.">>
ErrorAnswer(e) == <<"Error executing query: ", e>>

(***************************************************************************)
(* Program constants                                                       *)
(***************************************************************************)
\* message_history[-10:]
HISTORY_WINDOW == 10
\* asyncio.wait_for(..., timeout=15.0)
QUERY_TIMEOUT == 15
\* results[:25]
ResultLimitOneMore == 25 + 1
RESULT_LIMIT == 25
\* LIMIT 5 of the chunk search
NewsLimitOneMore == 5 + 1
NEWS_LIMIT == 5
\* for attempt in range(2)
AttemptsOffByOne == 2 + 1
Attempts == 2

(***************************************************************************)
(* State                                                                   *)
(***************************************************************************)
VARIABLES
  \* the request (AskRequest)
  question, message_history,
  \* ask: where the handler is, and the AskResponse it produced
  askPc, response,
  \* route_question: its position, its locals and what it returned
  routePc, rq, normalized, category, routeRet,
  \* answer_stats_question: its position, its argument, its locals, its result
  statsPc, news_context, sql, attempt, last_error, results, statsRet,
  \* answer_news_question: its position, its rows and its result
  newsPc, newsRows, newsRet,
  \* answer_betting_question as route_question awaits it
  betPc, betRet,
  \* every call made across a port boundary, in order
  log,
  \* the wall clock (time.time(), in seconds)
  clock,
  \* scores_service._cache: None or (timestamp, data)
  cache,
  \* get_scores, per caller: its position, its local now, and its local result
  \* (kept after the return as the value the caller received)
  callPc, callNow, callResult,
  \* every get_scores call, in the order the calls started
  calls,
  \* the call each caller is in
  cur,
  \* the requests the refresh of a followed caller has made to the NBA API,
  \* in order, with what each found; None when no caller is followed
  fetches,
  \* the GamePreviewRequest
  home_team_abbr, away_team_abbr,
  \* game_preview and generate_game_preview: their position, the sub-queries of
  \* the inner gather that have not returned yet, what the database did for
  \* each sub-query, the evidence bundle, the result and the response
  previewPc, pending, db_out, collected_data, previewRet, previewResponse,
  \* _safe_news_search: its position and the value it returned
  safePc, news_result,
  \* answer_betting_question in detail: its position, the text the intent
  \* parser returned, its locals intent, opponent_abbr, collected_data and
  \* opp_set, the gather it awaits (with the player of the loop at lines
  \* 377-399), every sub-query it has issued, and its result
  planPc, raw, intent, opponent_abbr, collected, opp_set, stage, player_idx, subs,
  planRet,
  \* the safety check on its own: the statement searched and the verdict
  statement, rejected,
  \* _detect_parlay_correlations on its own: the legs, the hit percentage the
  \* evidence holds for each leg (the function is not given it), the warnings
  parlay_legs, hit_pct, correlation_warnings,
  \* the connection pool on its own: the connections in use, and for each
  \* request the positions of its coroutines and the connections they hold
  in_use, reqs,
  \* the chunk search on its own: NOW(), the chunks of the table and the rows
  \* in the order the statement returns them
  db_now, candidates, ranked

askVars == <<question, message_history, askPc, response>>
routeVars == <<routePc, rq, normalized, category, routeRet>>
statsVars == <<statsPc, news_context, sql, attempt, last_error, results, statsRet>>
newsVars == <<newsPc, newsRows, newsRet>>
betVars == <<betPc, betRet>>
requestVars == <<askVars, routeVars, statsVars, newsVars, betVars, log>>
scoresVars == <<clock, cache, callPc, callNow, callResult, calls, cur, fetches>>
previewVars == <<home_team_abbr, away_team_abbr, previewPc, pending, db_out,
                 collected_data, previewRet, previewResponse, safePc, news_result>>
planVars == <<planPc, raw, intent, opponent_abbr, collected, opp_set, stage, player_idx,
              subs, planRet>>
checkVars == <<statement, rejected, parlay_legs, hit_pct, correlation_warnings, in_use, reqs>>
rankVars == <<db_now, candidates, ranked>>
vars == <<requestVars, scoresVars, previewVars, planVars, checkVars, rankVars>>

(***************************************************************************)
(* The ports                                                               *)
(***************************************************************************)
\* chat_completion: the text of the first choice, or the client raises
chat_completion(texts) ==
  {[out |-> "ok", text |-> t] : t \in texts} \cup {[out |-> "fail", text |-> <<>>]}

\* embed_text: a vector, or the client raises
embed_text == {"ok", "fail"}

\* conn.fetch under asyncio.wait_for: n rows, a timeout or an error
Rows(n) == [i \in 1..n |-> i]
fetch_with_timeout ==
  {[out |-> "ok", rows |-> Rows(n), err |-> ""] : n \in {0, 1, MaxRows}}
    \cup {[out |-> "timeout", rows |-> <<>>, err |-> ""]}
    \cup {[out |-> "error", rows |-> <<>>, err |-> e] : e \in ExecErrors}

\* one chunk row of the news search
Chunk(i) ==
  [content |-> <<"content", i>>, title |-> <<"title", i>>,
   url |-> <<"url", i>>, source |-> <<"source", i>>]
\* conn.fetch of the chunk search: at most NEWS_LIMIT rows, or an error
fetch_chunks ==
  {[out |-> "ok", rows |-> [i \in 1..n |-> Chunk(i)]] : n \in {0, 1, NEWS_LIMIT}}
    \cup {[out |-> "error", rows |-> <<>>]}

\* entries of the log
Gen(what, arg, o) ==
  [port |-> "gen", what |-> what, arg |-> arg, text |-> o.text, out |-> o.out, err |-> ""]
Db(what, stmt, arg, out, err) ==
  [port |-> "db", what |-> what, arg |-> arg, text |-> stmt, out |-> out, err |-> err]
Embed(arg, out) ==
  [port |-> "embed", what |-> "embed", arg |-> arg, text |-> <<>>, out |-> out, err |-> ""]

\* s[-n:]
LastN(s, n) == IF Len(s) <= n THEN s ELSE SubSeq(s, Len(s) - n + 1, Len(s))
\* s[:n]
FirstN(s, n) == IF Len(s) <= n THEN s ELSE SubSeq(s, 1, n)

(***************************************************************************)
(* Init: a request has arrived at the ask endpoint; the scores cache is     *)
(* empty, as at import of scores_service                                   *)
(***************************************************************************)
Callers == 1..NumCallers

ScoresInitFollowing(f) ==
  /\ clock = 0
  /\ cache = None
  /\ callPc = [c \in Callers |-> "idle"]
  /\ callNow = [c \in Callers |-> 0]
  /\ callResult = [c \in Callers |-> None]
  /\ calls = <<>>
  /\ cur = [c \in Callers |-> 0]
  /\ fetches = f

ScoresInit == ScoresInitFollowing(None)

RequestInit(pc) ==
  /\ question \in Questions
  /\ message_history \in (IF pc = "received" THEN Histories ELSE {<<>>})
  /\ askPc = pc
  /\ response = None
  /\ routePc = "idle"
  /\ rq = question
  /\ normalized = <<>>
  /\ category = <<>>
  /\ routeRet = None
  /\ statsPc = "idle"
  /\ news_context = None
  /\ sql = <<>>
  /\ attempt = 0
  /\ last_error = None
  /\ results = None
  /\ statsRet = None
  /\ newsPc = "idle"
  /\ newsRows = <<>>
  /\ newsRet = None
  /\ betPc = "idle"
  /\ betRet = None
  /\ log = <<>>

\* game_preview: "idle" when no preview request is being served
PreviewInit(pc) ==
  /\ home_team_abbr = <<"B","O","S">>
  /\ away_team_abbr = <<"L","A","L">>
  /\ previewPc = pc
  /\ pending = {}
  /\ db_out = <<>>
  /\ collected_data = <<>>
  /\ previewRet = None
  /\ previewResponse = None
  /\ safePc = "idle"
  /\ news_result = None

\* answer_betting_question in detail: "idle" when it is not being followed
PlanInit(pc) ==
  /\ planPc = pc
  /\ raw = None
  /\ intent = None
  /\ opponent_abbr = None
  /\ collected = <<>>
  /\ opp_set = {}
  /\ stage = "parse"
  /\ player_idx = 0
  /\ subs = <<>>
  /\ planRet = None

\* the safety check and the chunk search when they are not followed on their own
ParlayIdle == parlay_legs = <<>> /\ hit_pct = 0 /\ correlation_warnings = None
PoolIdle == in_use = 0 /\ reqs = <<>>
CheckIdle == statement = <<>> /\ rejected = None /\ ParlayIdle /\ PoolIdle
RankIdle == db_now = 0 /\ candidates = <<>> /\ ranked = None

Init ==
  /\ RequestInit("received") /\ ScoresInit /\ PreviewInit("idle") /\ PlanInit("idle")
  /\ CheckIdle /\ RankIdle

(***************************************************************************)
(* ask and route_question                                                  *)
(***************************************************************************)
\* ask calls route_question(req.question, message_history=req.message_history);
\* route_question resolves the context only for a non-empty history
Ask ==
  /\ askPc = "received"
  /\ askPc' = "awaiting"
  /\ routePc' = IF Len(message_history) > 0 THEN "resolve" ELSE "normalize"
  /\ UNCHANGED <<question, message_history, response, rq, normalized, category,
                 routeRet, statsVars, newsVars, betVars, log>>
  /\ UNCHANGED <<scoresVars, checkVars, rankVars, previewVars, planVars>>

\* question = await resolve_context(question, message_history)
ResolveContext ==
  /\ routePc = "resolve"
  /\ \E o \in chat_completion(ResolveTexts) :
       /\ log' = Append(log, Gen("resolve",
                   [question |-> rq, history |-> LastN(message_history, HISTORY_WINDOW)], o))
       /\ IF o.out = "ok"
            THEN rq' = strip(o.text) /\ routePc' = "normalize"
            ELSE rq' = rq /\ routePc' = "raised"
  /\ UNCHANGED <<askVars, normalized, category, routeRet, statsVars, newsVars, betVars>>
  /\ UNCHANGED <<scoresVars, checkVars, rankVars, previewVars, planVars>>

\* normalized = await normalize_question(question)
NormalizeQuestion ==
  /\ routePc = "normalize"
  /\ \E o \in chat_completion(NormalizeTexts) :
       /\ log' = Append(log, Gen("normalize", [question |-> rq], o))
       /\ IF o.out = "ok"
            THEN normalized' = strip(o.text) /\ routePc' = "classify"
            ELSE normalized' = normalized /\ routePc' = "raised"
  /\ UNCHANGED <<askVars, rq, category, routeRet, statsVars, newsVars, betVars>>
  /\ UNCHANGED <<scoresVars, checkVars, rankVars, previewVars, planVars>>

\* the token classify_question returns for the text the generation port gave
ClassifyNoFallback(text) == upper(strip(text))
Classify(text) ==
  LET c == upper(strip(text))
  IN  IF c \notin CATEGORIES THEN STATS ELSE c

\* category = await classify_question(normalized)
ClassifyQuestion ==
  /\ routePc = "classify"
  /\ \E o \in chat_completion(ClassifyTexts) :
       /\ log' = Append(log, Gen("classify", [question |-> normalized], o))
       /\ IF o.out = "ok"
            THEN category' = Classify(o.text) /\ routePc' = "dispatch"
            ELSE category' = category /\ routePc' = "raised"
  /\ UNCHANGED <<askVars, rq, normalized, routeRet, statsVars, newsVars, betVars>>
  /\ UNCHANGED <<scoresVars, checkVars, rankVars, previewVars, planVars>>

\* the chain of if category == ... of route_question, up to its first await
DispatchOffTopicToStats ==
  /\ routePc = "dispatch"
  /\ routePc' = "await_stats"
  /\ statsPc' = "generate"
  /\ news_context' = None
  /\ UNCHANGED <<askVars, rq, normalized, category, routeRet, newsPc, betPc, sql,
                 attempt, last_error, results, statsRet, newsRows, newsRet, betRet, log>>
  /\ UNCHANGED <<scoresVars, checkVars, rankVars, previewVars, planVars>>
Dispatch ==
  /\ routePc = "dispatch"
  /\ IF category = OFF_TOPIC THEN
       /\ routePc' = "returned"
       /\ routeRet' = [category |-> "off_topic", original_question |-> rq,
                       answer |-> OFF_TOPIC_ANSWER]
       /\ UNCHANGED <<statsPc, news_context, newsPc, betPc>>
     ELSE IF category = STATS THEN
       /\ routePc' = "await_stats"
       /\ statsPc' = "generate"
       /\ news_context' = None
       /\ UNCHANGED <<routeRet, newsPc, betPc>>
     ELSE IF category = NEWS THEN
       /\ routePc' = "await_news"
       /\ newsPc' = "embed"
       /\ UNCHANGED <<routeRet, statsPc, news_context, betPc>>
     ELSE IF category = BETTING THEN
       /\ routePc' = "await_gather"
       /\ betPc' = "parse"
       /\ newsPc' = "embed"
       /\ UNCHANGED <<routeRet, statsPc, news_context>>
     ELSE
       /\ routePc' = "await_mixed_news"
       /\ newsPc' = "embed"
       /\ UNCHANGED <<routeRet, statsPc, news_context, betPc>>
  /\ UNCHANGED <<askVars, rq, normalized, category, sql, attempt, last_error,
                 results, statsRet, newsRows, newsRet, betRet, log>>
  /\ UNCHANGED <<scoresVars, checkVars, rankVars, previewVars, planVars>>

\* STATS: result = await answer_stats_question(normalized)
RouteStats ==
  /\ routePc = "await_stats"
  /\ statsPc \in {"returned", "raised"}
  /\ IF statsPc = "returned"
       THEN /\ routePc' = "returned"
            /\ routeRet' = [answer |-> statsRet.answer, sql |-> statsRet.sql,
                            results |-> statsRet.results, category |-> "stats",
                            original_question |-> rq]
       ELSE routePc' = "raised" /\ routeRet' = routeRet
  /\ UNCHANGED <<askVars, rq, normalized, category, statsVars, newsVars, betVars, log>>
  /\ UNCHANGED <<scoresVars, checkVars, rankVars, previewVars, planVars>>

\* NEWS: result = await answer_news_question(normalized)
RouteNews ==
  /\ routePc = "await_news"
  /\ newsPc \in {"returned", "raised"}
  /\ IF newsPc = "returned"
       THEN /\ routePc' = "returned"
            /\ routeRet' = [answer |-> newsRet.answer, sources |-> newsRet.sources,
                            category |-> "news", original_question |-> rq]
       ELSE routePc' = "raised" /\ routeRet' = routeRet
  /\ UNCHANGED <<askVars, rq, normalized, category, statsVars, newsVars, betVars, log>>
  /\ UNCHANGED <<scoresVars, checkVars, rankVars, previewVars, planVars>>

\* BETTING: asyncio.gather(betting_coro, news_coro) hands the first exception of
\* either branch to route_question at once; the other branch is not cancelled
RouteGatherRaised ==
  /\ routePc = "await_gather"
  /\ betPc = "raised" \/ newsPc = "raised"
  /\ routePc' = "raised"
  /\ UNCHANGED <<askVars, rq, normalized, category, routeRet, statsVars, newsVars,
                 betVars, log>>
  /\ UNCHANGED <<scoresVars, checkVars, rankVars, previewVars, planVars>>

\* BETTING: both branches returned; the news answer is appended when there are
\* sources and the news answer is not empty
RouteGatherDone ==
  /\ routePc = "await_gather"
  /\ betPc = "returned" /\ newsPc = "returned"
  /\ LET sources == get(newsRet, "sources", <<>>)
         watch == Len(sources) > 0 /\ Len(get(newsRet, "answer", <<>>)) > 0
         answer == IF watch
                     THEN betRet.answer \o <<"\n\n---\n**Injury/News Watch:**\n">>
                            \o newsRet.answer
                     ELSE betRet.answer
     IN  routeRet' = [category |-> "betting", original_question |-> rq,
                      answer |-> answer, sources |-> sources]
  /\ routePc' = "returned"
  /\ UNCHANGED <<askVars, rq, normalized, category, statsVars, newsVars, betVars, log>>
  /\ UNCHANGED <<scoresVars, checkVars, rankVars, previewVars, planVars>>

\* MIXED: news_result = await answer_news_question(normalized), then
\* answer_stats_question(normalized, news_context=news_result["answer"])
RouteMixedNews ==
  /\ routePc = "await_mixed_news"
  /\ newsPc \in {"returned", "raised"}
  /\ IF newsPc = "returned"
       THEN /\ routePc' = "await_mixed_stats"
            /\ statsPc' = "generate"
            /\ news_context' = Some(newsRet.answer)
       ELSE routePc' = "raised" /\ UNCHANGED <<statsPc, news_context>>
  /\ UNCHANGED <<askVars, rq, normalized, category, routeRet, sql, attempt,
                 last_error, results, statsRet, newsVars, betVars, log>>
  /\ UNCHANGED <<scoresVars, checkVars, rankVars, previewVars, planVars>>

\* MIXED: the two answers under their fixed labels
RouteMixedStats ==
  /\ routePc = "await_mixed_stats"
  /\ statsPc \in {"returned", "raised"}
  /\ IF statsPc = "returned"
       THEN /\ routePc' = "returned"
            /\ routeRet' = [category |-> "mixed", original_question |-> rq,
                            answer |-> <<"**Stats perspective:**\n">> \o statsRet.answer
                                         \o <<"\n\n**News perspective:**\n">>
                                         \o newsRet.answer,
                            sql |-> get(statsRet, "sql", None),
                            sources |-> get(newsRet, "sources", <<>>)]
       ELSE routePc' = "raised" /\ routeRet' = routeRet
  /\ UNCHANGED <<askVars, rq, normalized, category, statsVars, newsVars, betVars, log>>
  /\ UNCHANGED <<scoresVars, checkVars, rankVars, previewVars, planVars>>

\* the try/except of ask around route_question, and the AskResponse it builds
AskHandlerNoTry(raised, result) ==
  IF raised
    THEN [propagated |-> TRUE]
    ELSE [propagated |-> FALSE,
          question |-> question,
          category |-> get(result, "category", "stats"),
          answer |-> result.answer,
          sql |-> IF "sql" \in DOMAIN result THEN Some(result.sql) ELSE None,
          sources |-> IF "sources" \in DOMAIN result THEN Some(result.sources) ELSE None]
AskHandler(raised, result) ==
  IF raised
    THEN [propagated |-> FALSE,
          question |-> question,
          category |-> "error",
          answer |-> APOLOGY_ANSWER,
          sql |-> None,
          sources |-> None]
    ELSE [propagated |-> FALSE,
          question |-> question,
          category |-> get(result, "category", "stats"),
          answer |-> result.answer,
          sql |-> IF "sql" \in DOMAIN result THEN Some(result.sql) ELSE None,
          sources |-> IF "sources" \in DOMAIN result THEN Some(result.sources) ELSE None]

\* ask resumes when route_question has returned or raised
AskRespond ==
  /\ askPc = "awaiting"
  /\ routePc \in {"returned", "raised"}
  /\ askPc' = "done"
  /\ response' = AskHandler(routePc = "raised", routeRet)
  /\ UNCHANGED <<question, message_history, routeVars, statsVars, newsVars, betVars, log>>
  /\ UNCHANGED <<scoresVars, checkVars, rankVars, previewVars, planVars>>

(***************************************************************************)
(* answer_stats_question                                                   *)
(***************************************************************************)
NeverRejects(s) == FALSE
\* Step 2: the safety check of the first generated statement
RejectGenerated(s) == UNSAFE_PATTERN_search(s)
\* the safety check of the corrected statement
RejectCorrected(s) == UNSAFE_PATTERN_search(s)

TimeoutAsError(o) == FALSE
\* except asyncio.TimeoutError, tried before except Exception
IsTimeoutError(o) == o.out = "timeout"

\* if news_context: the context is appended to the prompt when it is not empty
PromptContextDropped(ctx) == None
PromptContext(ctx) == IF ~ctx.none /\ Len(ctx.v) > 0 THEN ctx ELSE None

\* the dicts the pipeline returns before Step 4
ReadOnlyResult(s) == [answer |-> READ_ONLY_ANSWER, sql |-> s, results |-> None]
TimeoutResult(s) == [answer |-> TIMEOUT_ANSWER, sql |-> s, results |-> None]
ErrorResultWithRows(s, e) == [answer |-> ErrorAnswer(e), sql |-> s, results |-> Some(<<>>)]
ErrorResult(s, e) == [answer |-> ErrorAnswer(e), sql |-> s, results |-> None]

\* Step 1 and Step 2: generate the SQL, clean it, check it
StatsGenerate ==
  /\ statsPc = "generate"
  /\ \E o \in chat_completion(SqlTexts) :
       /\ log' = Append(log, Gen("sql",
                   [question |-> normalized, news_context |-> PromptContext(news_context)], o))
       /\ IF o.out = "fail" THEN
            /\ statsPc' = "raised"
            /\ UNCHANGED <<sql, attempt, last_error, statsRet>>
          ELSE IF RejectGenerated(CleanSql(o.text)) THEN
            /\ sql' = CleanSql(o.text)
            /\ statsPc' = "returned"
            /\ statsRet' = ReadOnlyResult(CleanSql(o.text))
            /\ UNCHANGED <<attempt, last_error>>
          ELSE
            /\ sql' = CleanSql(o.text)
            /\ statsPc' = "execute"
            /\ attempt' = 0
            /\ last_error' = None
            /\ UNCHANGED statsRet
  /\ UNCHANGED <<askVars, routeVars, news_context, results, newsVars, betVars>>
  /\ UNCHANGED <<scoresVars, checkVars, rankVars, previewVars, planVars>>

\* Step 3: one iteration of the loop up to the await it stops at: the fetch in
\* a read-only transaction under the timeout, and the handling of its outcome
StatsExecute ==
  /\ statsPc = "execute"
  /\ attempt < Attempts
  /\ \E o \in fetch_with_timeout :
       /\ log' = Append(log, Db("stats", sql,
                   [readonly |-> TRUE, timeout |-> Some(QUERY_TIMEOUT)], o.out, o.err))
       /\ IF o.out = "ok" THEN
            /\ results' = Some(o.rows)
            /\ last_error' = None
            /\ statsPc' = "format"
            /\ UNCHANGED <<attempt, statsRet>>
          ELSE IF IsTimeoutError(o) THEN
            /\ statsPc' = "returned"
            /\ statsRet' = TimeoutResult(sql)
            /\ UNCHANGED <<attempt, last_error, results>>
          ELSE IF attempt = 0 THEN
            /\ last_error' = Some(o.err)
            /\ statsPc' = "correct"
            /\ UNCHANGED <<attempt, results, statsRet>>
          ELSE IF attempt + 1 < Attempts THEN
            /\ last_error' = Some(o.err)
            /\ attempt' = attempt + 1
            /\ statsPc' = "execute"
            /\ UNCHANGED <<results, statsRet>>
          ELSE
            /\ last_error' = Some(o.err)
            /\ statsPc' = "returned"
            /\ statsRet' = ErrorResult(sql, o.err)
            /\ UNCHANGED <<attempt, results>>
  /\ UNCHANGED <<askVars, routeVars, news_context, sql, newsVars, betVars>>
  /\ UNCHANGED <<scoresVars, checkVars, rankVars, previewVars, planVars>>

\* Step 3, attempt 0 after an error: the correction call, the cleaning and the
\* check of the corrected statement, then the next iteration of the loop
StatsCorrect ==
  /\ statsPc = "correct"
  /\ \E o \in chat_completion(SqlTexts) :
       /\ log' = Append(log, Gen("correct",
                   [sql |-> sql, error |-> last_error.v, question |-> normalized], o))
       /\ IF o.out = "fail" THEN
            /\ statsPc' = "raised"
            /\ UNCHANGED <<sql, attempt, statsRet>>
          ELSE IF RejectCorrected(CleanSql(o.text)) THEN
            /\ sql' = CleanSql(o.text)
            /\ statsPc' = "returned"
            /\ statsRet' = ReadOnlyResult(CleanSql(o.text))
            /\ UNCHANGED attempt
          ELSE IF attempt + 1 < Attempts THEN
            /\ sql' = CleanSql(o.text)
            /\ attempt' = attempt + 1
            /\ statsPc' = "execute"
            /\ UNCHANGED statsRet
          ELSE
            /\ sql' = CleanSql(o.text)
            /\ statsPc' = "returned"
            /\ statsRet' = ErrorResult(CleanSql(o.text), last_error.v)
            /\ UNCHANGED attempt
  /\ UNCHANGED <<askVars, routeVars, news_context, last_error, results, newsVars, betVars>>
  /\ UNCHANGED <<scoresVars, checkVars, rankVars, previewVars, planVars>>

\* Step 4: format the first RESULT_LIMIT rows into the answer
StatsFormat ==
  /\ statsPc = "format"
  /\ \E o \in chat_completion(FormatAnswers) :
       /\ log' = Append(log, Gen("format",
                   [question |-> normalized, sql |-> sql,
                    results |-> FirstN(results.v, RESULT_LIMIT)], o))
       /\ IF o.out = "fail" THEN
            /\ statsPc' = "raised"
            /\ UNCHANGED statsRet
          ELSE
            /\ statsPc' = "returned"
            /\ statsRet' = [answer |-> o.text, sql |-> sql,
                            results |-> Some(FirstN(results.v, RESULT_LIMIT))]
  /\ UNCHANGED <<askVars, routeVars, news_context, sql, attempt, last_error, results,
                 newsVars, betVars>>
  /\ UNCHANGED <<scoresVars, checkVars, rankVars, previewVars, planVars>>

(***************************************************************************)
(* answer_news_question                                                    *)
(***************************************************************************)
\* Step 1: embed the question
NewsEmbed ==
  /\ newsPc = "embed"
  /\ \E out \in embed_text :
       /\ log' = Append(log, Embed([question |-> normalized], out))
       /\ newsPc' = IF out = "ok" THEN "query" ELSE "raised"
  /\ UNCHANGED <<askVars, routeVars, statsVars, newsRows, newsRet, betVars>>
  /\ UNCHANGED <<scoresVars, checkVars, rankVars, previewVars, planVars>>

\* if not rows
RowsNeverEmpty(rows) == FALSE
NoRows(rows) == Len(rows) = 0

\* Step 2: the chunk search, and the fixed answer when it finds nothing
NewsQuery ==
  /\ newsPc = "query"
  /\ \E o \in fetch_chunks :
       /\ log' = Append(log, Db("news", <<"chunk search">>,
                   [readonly |-> FALSE, timeout |-> None], o.out, ""))
       /\ IF o.out = "error" THEN
            /\ newsPc' = "raised"
            /\ UNCHANGED <<newsRows, newsRet>>
          ELSE IF NoRows(o.rows) THEN
            /\ newsPc' = "returned"
            /\ newsRows' = o.rows
            /\ newsRet' = [answer |-> NO_NEWS_ANSWER, sources |-> <<>>]
          ELSE
            /\ newsPc' = "summarize"
            /\ newsRows' = o.rows
            /\ UNCHANGED newsRet
  /\ UNCHANGED <<askVars, routeVars, statsVars, betVars>>
  /\ UNCHANGED <<scoresVars, checkVars, rankVars, previewVars, planVars>>

\* Step 3 and Step 4: one provenance record per chunk, and the summary
NewsSummarize ==
  /\ newsPc = "summarize"
  /\ \E o \in chat_completion(SummaryAnswers) :
       /\ log' = Append(log, Gen("summarize",
                   [question |-> normalized, chunks |-> newsRows], o))
       /\ IF o.out = "fail" THEN
            /\ newsPc' = "raised"
            /\ UNCHANGED newsRet
          ELSE
            /\ newsPc' = "returned"
            /\ newsRet' = [answer |-> o.text,
                           sources |-> [i \in 1..Len(newsRows) |->
                                          [title |-> newsRows[i].title,
                                           url |-> newsRows[i].url,
                                           source |-> newsRows[i].source]]]
  /\ UNCHANGED <<askVars, routeVars, statsVars, newsRows, betVars>>
  /\ UNCHANGED <<scoresVars, checkVars, rankVars, previewVars, planVars>>

(***************************************************************************)
(* answer_betting_question, as far as route_question depends on it: the    *)
(* intent-parsing call, the plan's queries (each failure degrades to an    *)
(* empty list inside _execute_query) and the formatting call               *)
(***************************************************************************)
IntentTexts == { <<"{","}">> }

\* Step 1: intent = await _parse_betting_intent(question)
BettingParse ==
  /\ betPc = "parse"
  /\ \E o \in chat_completion(IntentTexts) :
       /\ log' = Append(log, Gen("parse_betting", [question |-> normalized], o))
       /\ betPc' = IF o.out = "ok" THEN "queries" ELSE "raised"
  /\ UNCHANGED <<askVars, routeVars, statsVars, newsVars, betRet>>
  /\ UNCHANGED <<scoresVars, checkVars, rankVars, previewVars, planVars>>

\* Step 2: the league-wide scan of the default intent settles
BettingQueries ==
  /\ betPc = "queries"
  /\ \E out \in {"ok", "error", "timeout"} :
       log' = Append(log, Db("betting", <<"find picks">>,
                 [readonly |-> TRUE, timeout |-> Some(QUERY_TIMEOUT)], out, ""))
  /\ betPc' = "format"
  /\ UNCHANGED <<askVars, routeVars, statsVars, newsVars, betRet>>
  /\ UNCHANGED <<scoresVars, checkVars, rankVars, previewVars, planVars>>

\* Step 3: the formatting call
BettingFormat ==
  /\ betPc = "format"
  /\ \E o \in chat_completion(BettingAnswers) :
       /\ log' = Append(log, Gen("format_betting", [question |-> normalized], o))
       /\ IF o.out = "fail" THEN
            /\ betPc' = "raised"
            /\ UNCHANGED betRet
          ELSE
            /\ betPc' = "returned"
            /\ betRet' = [answer |-> o.text, intent |-> "FIND_PICKS"]
  /\ UNCHANGED <<askVars, routeVars, statsVars, newsVars>>
  /\ UNCHANGED <<scoresVars, checkVars, rankVars, previewVars, planVars>>

(***************************************************************************)
(* One request through the ask endpoint                                    *)
(***************************************************************************)
Next ==
  \/ Ask
  \/ ResolveContext
  \/ NormalizeQuestion
  \/ ClassifyQuestion
  \/ Dispatch
  \/ RouteStats
  \/ RouteNews
  \/ RouteGatherRaised
  \/ RouteGatherDone
  \/ RouteMixedNews
  \/ RouteMixedStats
  \/ AskRespond
  \/ StatsGenerate
  \/ StatsExecute
  \/ StatsCorrect
  \/ StatsFormat
  \/ NewsEmbed
  \/ NewsQuery
  \/ NewsSummarize
  \/ BettingParse
  \/ BettingQueries
  \/ BettingFormat

Spec == Init /\ [][Next]_vars

(***************************************************************************)
(* Properties of one request                                               *)
(***************************************************************************)
\* positions in the log of the generation-port calls made for one purpose
GenCalls(what) == {i \in DOMAIN log : log[i].port = "gen" /\ log[i].what = what}
\* positions in the log of the executions of answer_stats_question
StatsExecs == {i \in DOMAIN log : log[i].port = "db" /\ log[i].what = "stats"}
\* the port calls whose failure makes the calling coroutine raise
Raising(k) ==
  \/ log[k].port \in {"gen", "embed"} /\ log[k].out = "fail"
  \/ log[k].port = "db" /\ log[k].what = "news" /\ log[k].out = "error"

\* C1: one answer_stats_question call executes SQL at most twice, the second
\* time the corrected statement, and asks for a correction at most once; after
\* two executions that both failed with a non-timeout error it has returned
\* the answer carrying the second error's message with results = None, and
\* nothing was executed or corrected afterwards.
C1_RetryBound ==
  /\ Cardinality(StatsExecs) <= 2
  /\ Cardinality(GenCalls("correct")) <= 1
  /\ \A i, j \in StatsExecs : i < j =>
       /\ \E k \in GenCalls("correct") :
            /\ i < k /\ k < j
            /\ log[k].out = "ok"
            /\ log[j].text = CleanSql(log[k].text)
       /\ log[i].out = "error" /\ log[j].out = "error" =>
            /\ statsPc = "returned"
            /\ statsRet = [answer |-> ErrorAnswer(log[j].err), sql |-> log[j].text,
                           results |-> None]
            /\ \A k \in DOMAIN log :
                 k > j => ~(log[k].port = "db" /\ log[k].what = "stats")
                            /\ ~(log[k].port = "gen" /\ log[k].what = "correct")

\* both executions failed, with different errors
C1_Witness ==
  \E i, j \in StatsExecs :
    /\ i < j
    /\ log[i].out = "error" /\ log[j].out = "error"
    /\ log[i].err # log[j].err
    /\ statsPc = "returned"

\* C2: every statement answer_stats_question hands to the query port, the first
\* and the corrected one alike, is the cleaned text of the generation call made
\* just before it and contains no blocked keyword.
C2_CheckedBeforeExecution ==
  \A i \in StatsExecs :
    /\ ~UNSAFE_PATTERN_search(log[i].text)
    /\ i > 1
    /\ log[i - 1].port = "gen"
    /\ log[i - 1].what \in {"sql", "correct"}
    /\ log[i - 1].out = "ok"
    /\ log[i].text = CleanSql(log[i - 1].text)

\* the corrected statement was executed, after a correction that changed the SQL
C2_Witness ==
  \E i, j \in StatsExecs :
    /\ i < j
    /\ log[i].text # log[j].text
    /\ log[j - 1].what = "correct"

\* C4: a failure of resolve_context's generation call, when nothing else of the
\* request fails, does not make route_question raise and does not give the
\* caller the error answer.
C4_ResolveFailureNonFatal ==
  \A i \in GenCalls("resolve") :
    (log[i].out = "fail" /\ \A k \in DOMAIN log : k # i => ~Raising(k)) =>
      /\ routePc # "raised"
      /\ askPc = "done" => response.category # "error"

\* C5: a failure of normalize_question's generation call, when nothing else of
\* the request fails, does not make route_question raise and is not surfaced
\* to the caller.
C5_NormalizeFailureNonFatal ==
  \A i \in GenCalls("normalize") :
    (log[i].out = "fail" /\ \A k \in DOMAIN log : k # i => ~Raising(k)) =>
      /\ routePc # "raised"
      /\ askPc = "done" => response.category # "error"

\* C6: for a BETTING question whose news branch raised while the betting
\* branch returned, the caller gets the category "betting" answer holding the
\* betting pipeline's answer, with no news section and empty sources.
C6_NewsFailureIsolated ==
  (askPc = "done" /\ category = BETTING /\ newsPc = "raised" /\ betPc = "returned") =>
    /\ response.category = "betting"
    /\ response.answer = betRet.answer
    /\ response.sources = Some(<<>>)

\* C7: ask never propagates a failure: whenever route_question raised (a port
\* call of classification or of a pipeline failed), the response is the
\* category "error" answer with the fixed apology; otherwise it is built from
\* what route_question returned.
C7_ErrorsCaughtAtAsk ==
  askPc = "done" =>
    /\ ~response.propagated
    /\ routePc = "raised" =>
         /\ response.category = "error"
         /\ response.answer = APOLOGY_ANSWER
         /\ response.question = question
    /\ routePc = "returned" =>
         /\ response.category = routeRet.category
         /\ response.answer = routeRet.answer
    /\ (\E k \in GenCalls("classify") : log[k].out = "fail") =>
         response.category = "error"
    /\ (statsPc = "raised" /\ category \in {STATS, MIXED}) =>
         response.category = "error"

\* the stats pipeline raised and ask has answered
C7_Witness ==
  /\ askPc = "done"
  /\ statsPc = "raised"
  /\ routePc = "raised"
  /\ response.category = "error"

\* C8: once the classification call has returned a text, category is one of
\* the five tokens: the trimmed, upper-cased text when that is one of them,
\* STATS otherwise; and until a later port call fails route_question has not
\* raised.
C8_ClassifyTotal ==
  \A i \in GenCalls("classify") :
    log[i].out = "ok" =>
      /\ category \in CATEGORIES
      /\ category = IF upper(strip(log[i].text)) \in CATEGORIES
                      THEN upper(strip(log[i].text))
                      ELSE STATS
      /\ i = Len(log) => routePc # "raised"

\* an unrecognized, non-empty token was classified
C8_Witness ==
  \E i \in GenCalls("classify") :
    /\ log[i].out = "ok"
    /\ Len(strip(log[i].text)) > 0
    /\ upper(strip(log[i].text)) \notin CATEGORIES
    /\ category = STATS
    /\ routePc = "await_stats"

\* C9: an execution that timed out, the first or the corrected one, is the last
\* port call of the pipeline (no correction, no execution, no formatting after
\* it) and the pipeline has returned the fixed "took too long" answer with
\* results = None; that answer is given for timeouts only, never for another
\* execution error.
C9_TimeoutImmediate ==
  /\ \A i \in StatsExecs :
       log[i].out = "timeout" =>
         /\ i = Len(log)
         /\ statsPc = "returned"
         /\ statsRet = TimeoutResult(log[i].text)
  /\ \A i \in StatsExecs :
       (log[i].out = "error" /\ statsPc = "returned" /\ i = Len(log)) =>
         statsRet.answer # TIMEOUT_ANSWER

\* the corrected statement timed out
C9_Witness ==
  \E i, j \in StatsExecs :
    /\ i < j
    /\ log[i].out = "error"
    /\ log[j].out = "timeout"
    /\ statsPc = "returned"

\* C10: a generated statement (first or corrected) that the validator rejects
\* ends the pipeline: it has returned the fixed read-only answer with
\* results = None, the statement was never executed, and no port call (no
\* correction, no execution) follows the call that generated it.
C10_RejectionFixedAnswer ==
  \A k \in GenCalls("sql") \cup GenCalls("correct") :
    (log[k].out = "ok" /\ UNSAFE_PATTERN_search(CleanSql(log[k].text))) =>
      /\ k = Len(log)
      /\ statsPc = "returned"
      /\ statsRet = ReadOnlyResult(CleanSql(log[k].text))
      /\ \A i \in StatsExecs : log[i].text # CleanSql(log[k].text)

\* the corrected statement was rejected
C10_Witness ==
  \E k \in GenCalls("correct") :
    /\ log[k].out = "ok"
    /\ UNSAFE_PATTERN_search(CleanSql(log[k].text))
    /\ statsPc = "returned"
    /\ statsRet.answer = READ_ONLY_ANSWER

(***************************************************************************)
(* The scores cache: get_scores under concurrent callers                   *)
(***************************************************************************)
\* _CACHE_TTL, in seconds
CACHE_TTL == 120

\* the clock advances by half a TTL or by one second less than a TTL, so that
\* calls start 59, 60, 119 and 120 s apart
TickSteps == {CACHE_TTL \div 2, CACHE_TTL - 1}

\* the payload of a failed or empty refresh
EMPTY_PAYLOAD == [games |-> <<>>, label |-> "Today"]

Game(home, away, status) ==
  [home_team_abbr |-> home, away_team_abbr |-> away, game_status_text |-> status]

\* _fetch_scoreboard_today: today's games (possibly none), or the upstream raises
fetch_scoreboard_today ==
  { [out |-> "ok", data |-> [games |-> <<Game("LAL", "BOS", "Q3")>>, label |-> "Today"]],
    [out |-> "ok", data |-> [games |-> <<>>, label |-> "Today"]],
    [out |-> "raise", data |-> EMPTY_PAYLOAD] }

\* what one probe of _fetch_upcoming finds for a day
ProbeOutcomes == {"games", "empty", "raise"}

\* _fetch_upcoming: day+1, then day+2; a probe that raises or finds no rows is
\* skipped; the first day with games is returned under its label
FetchUpcomingStopsOnRaise(p1, p2) ==
  IF p1 = "games"
    THEN [games |-> <<Game("NYK", "MIA", "7:30 pm ET")>>, label |-> "Tomorrow"]
    ELSE EMPTY_PAYLOAD
fetch_upcoming(p1, p2) ==
  IF p1 = "games"
    THEN [games |-> <<Game("NYK", "MIA", "7:30 pm ET")>>, label |-> "Tomorrow"]
  ELSE IF p2 = "games"
    THEN [games |-> <<Game("DEN", "PHX", "9:00 pm ET")>>, label |-> "%a, %b %-d"]
  ELSE EMPTY_PAYLOAD

\* the probes _fetch_upcoming makes: day+1, and day+2 unless day+1 has games
upcoming_probes(p1, p2) ==
  IF p1 = "games"
    THEN << [what |-> "day+1", out |-> p1] >>
    ELSE << [what |-> "day+1", out |-> p1], [what |-> "day+2", out |-> p2] >>

\* what _fetch_scoreboard_today found
TodayFound(o) ==
  IF o.out = "raise" THEN "raise"
  ELSE IF Len(o.data.games) = 0 THEN "empty" ELSE "games"

\* asyncio.to_thread(_fetch_upcoming): the two probes, or an exception outside
\* the per-day try (the import of the endpoint module)
UpcomingOutcomes ==
  { [raised |-> FALSE, p1 |-> "games", p2 |-> "not probed"] }
    \cup { [raised |-> FALSE, p1 |-> p1, p2 |-> p2] :
              p1 \in ProbeOutcomes \ {"games"}, p2 \in ProbeOutcomes }
    \cup { [raised |-> TRUE, p1 |-> "raise", p2 |-> "raise"] }

\* the requests of a followed refresh, with these added
Fetched(events) == IF fetches.none THEN fetches ELSE Some(fetches.v \o events)

\* if _cache and (now - _cache[0]) < _CACHE_TTL
CacheFreshInclusive(now, entry) == ~entry.none /\ (now - entry.v.ts) <= CACHE_TTL
CacheFresh(now, entry) == ~entry.none /\ (now - entry.v.ts) < CACHE_TTL

\* _cache = (now, result); return result
StoreTimestampFirst(c, result) ==
  /\ cache' = Some([ts |-> callNow[c],
                    data |-> IF cache.none THEN result ELSE cache.v.data])
  /\ callResult' = [callResult EXCEPT ![c] = Some(result)]
  /\ callPc' = [callPc EXCEPT ![c] = "idle"]
  /\ calls' = [calls EXCEPT ![cur[c]].done = TRUE]
StoreAndReturn(c, result) ==
  /\ cache' = Some([ts |-> callNow[c], data |-> result])
  /\ callResult' = [callResult EXCEPT ![c] = Some(result)]
  /\ callPc' = [callPc EXCEPT ![c] = "idle"]
  /\ calls' = [calls EXCEPT ![cur[c]].done = TRUE]

\* a caller enters get_scores: it reads the clock and the cache; a fresh entry
\* is returned at once, otherwise the fetch of today's scoreboard is started
GetScores(c) ==
  /\ callPc[c] = "idle"
  /\ Len(calls) < MaxCalls
  /\ callNow' = [callNow EXCEPT ![c] = clock]
  /\ cur' = [cur EXCEPT ![c] = Len(calls) + 1]
  /\ LET fresh == CacheFresh(clock, cache)
         call == [caller |-> c,
                  start |-> clock,
                  seen |-> IF cache.none THEN None ELSE Some(cache.v.ts),
                  overlaps |-> \E d \in Callers : callPc[d] # "idle",
                  fetched |-> ~fresh,
                  done |-> fresh]
     IN  /\ calls' = Append(calls, call)
         /\ callPc' = [callPc EXCEPT ![c] = IF fresh THEN "idle" ELSE "today"]
         /\ callResult' = [callResult EXCEPT ![c] = IF fresh THEN Some(cache.v.data) ELSE None]
  /\ fetches' = IF fetches.none THEN fetches ELSE Some(<<>>)
  /\ UNCHANGED <<clock, cache, requestVars, checkVars, rankVars, previewVars, planVars>>

\* await asyncio.to_thread(_fetch_scoreboard_today) completes: with games the
\* result is stored; without games the probe of the next days is started; an
\* exception stores the empty payload
FetchToday(c) ==
  /\ callPc[c] = "today"
  /\ \E o \in fetch_scoreboard_today :
       /\ fetches' = Fetched(<< [what |-> "today", out |-> TodayFound(o)] >>)
       /\ IF o.out = "ok" /\ Len(o.data.games) = 0
            THEN /\ callPc' = [callPc EXCEPT ![c] = "upcoming"]
                 /\ UNCHANGED <<cache, callResult, calls>>
            ELSE StoreAndReturn(c, o.data)
  /\ UNCHANGED <<clock, callNow, cur, requestVars, checkVars, rankVars, previewVars, planVars>>

\* await asyncio.to_thread(_fetch_upcoming) completes, or raises into the
\* except of get_scores, and the result is stored
FetchUpcoming(c) ==
  /\ callPc[c] = "upcoming"
  /\ \E o \in UpcomingOutcomes :
       IF o.raised
         THEN /\ fetches' = Fetched(<< [what |-> "upcoming", out |-> "raise"] >>)
              /\ StoreAndReturn(c, EMPTY_PAYLOAD)
         ELSE /\ fetches' = Fetched(upcoming_probes(o.p1, o.p2))
              /\ StoreAndReturn(c, fetch_upcoming(o.p1, o.p2))
  /\ UNCHANGED <<clock, callNow, cur, requestVars, checkVars, rankVars, previewVars, planVars>>

\* time passes
Tick ==
  /\ \E d \in TickSteps :
       /\ clock + d <= MaxClock
       /\ clock' = clock + d
  /\ UNCHANGED <<cache, callPc, callNow, callResult, calls, cur, fetches>>
  /\ UNCHANGED <<requestVars, checkVars, rankVars, previewVars, planVars>>

NextScores ==
  \/ \E c \in Callers : GetScores(c)
  \/ \E c \in Callers : FetchToday(c)
  \/ \E c \in Callers : FetchUpcoming(c)
  \/ Tick

InitScores ==
  /\ RequestInit("idle") /\ ScoresInit /\ PreviewInit("idle") /\ PlanInit("idle")
  /\ CheckIdle /\ RankIdle

SpecScores == InitScores /\ [][NextScores]_vars

(***************************************************************************)
(* Properties of the scores cache                                          *)
(***************************************************************************)
\* C3 as claimed: of any two get_scores calls that start less than 120 s apart
\* at most one performs an upstream fetch, in any interleaving; and a call that
\* starts 120 s or more after the entry's fetched_at performs one.
C3_OneFetchPerTTL ==
  /\ \A a, b \in DOMAIN calls :
       (a < b /\ calls[b].start - calls[a].start < CACHE_TTL) =>
         ~(calls[a].fetched /\ calls[b].fetched)
  /\ \A a \in DOMAIN calls :
       (~calls[a].seen.none /\ calls[a].start - calls[a].seen.v >= CACHE_TTL) =>
         calls[a].fetched

\* C3 as amended: a call performs an upstream fetch exactly when, at its start,
\* there is no entry or the entry's fetched_at is 120 s or more in the past;
\* and of two calls that start less than 120 s apart at most one fetches as
\* long as no call of the run started while another was still in progress.
C3_FetchIffStale ==
  /\ \A a \in DOMAIN calls :
       calls[a].fetched <=>
         (calls[a].seen.none \/ calls[a].start - calls[a].seen.v >= CACHE_TTL)
  /\ (\A a \in DOMAIN calls : ~calls[a].overlaps) =>
       \A a, b \in DOMAIN calls :
         (a < b /\ calls[b].start - calls[a].start < CACHE_TTL) =>
           ~(calls[a].fetched /\ calls[b].fetched)

\* without overlap: a call served from the cache some time after the fetch, and
\* a later call that fetched again exactly 120 s after the entry's fetched_at
C3_Witness ==
  /\ \A a \in DOMAIN calls : ~calls[a].overlaps
  /\ \E a, b, d \in DOMAIN calls :
       /\ a < b /\ b < d
       /\ calls[a].fetched
       /\ ~calls[b].fetched /\ calls[b].start > calls[a].start
       /\ calls[d].fetched /\ calls[d].start - calls[d].seen.v = CACHE_TTL

(***************************************************************************)
(* game_preview and generate_game_preview: fourteen sub-queries and the    *)
(* news search run concurrently; the formatting call follows the gather    *)
(***************************************************************************)
\* the statements of the query builders, by their opening words
PreviewSql(builder) ==
  IF builder = "trend"
    THEN <<"W","I","T","H"," ","r","e","c","e","n","t"," ","A","S">>
    ELSE <<"S","E","L","E","C","T">>

\* queries: the plan, in insertion order; team names the request field that
\* is the builder's first argument
queries ==
  << [key |-> "home_starters",   builder |-> "probable_starters", team |-> "home"],
     [key |-> "away_starters",   builder |-> "probable_starters", team |-> "away"],
     [key |-> "home_season_avg", builder |-> "season_averages",   team |-> "home"],
     [key |-> "away_season_avg", builder |-> "season_averages",   team |-> "away"],
     [key |-> "h2h_home",        builder |-> "h2h",               team |-> "home"],
     [key |-> "h2h_away",        builder |-> "h2h",               team |-> "away"],
     [key |-> "home_defense",    builder |-> "defense",           team |-> "home"],
     [key |-> "away_defense",    builder |-> "defense",           team |-> "away"],
     [key |-> "home_props",      builder |-> "prop_picks",        team |-> "home"],
     [key |-> "away_props",      builder |-> "prop_picks",        team |-> "away"],
     [key |-> "home_trends",     builder |-> "trend",             team |-> "home"],
     [key |-> "away_trends",     builder |-> "trend",             team |-> "away"],
     [key |-> "home_splits",     builder |-> "splits",            team |-> "home"],
     [key |-> "away_splits",     builder |-> "splits",            team |-> "away"] >>

\* keys = list(queries.keys())
keys == [i \in DOMAIN queries |-> queries[i].key]
PLAN_KEYS == {keys[i] : i \in DOMAIN keys}
QueryOf == [k \in PLAN_KEYS |-> queries[CHOOSE i \in DOMAIN queries : queries[i].key = k]]

\* the parameters of the statement of key k: the team, and for the
\* head-to-head queries the other team as well
QueryParams(k) ==
  LET team == IF QueryOf[k].team = "home" THEN home_team_abbr ELSE away_team_abbr
      other == IF QueryOf[k].team = "home" THEN away_team_abbr ELSE home_team_abbr
  IN  IF QueryOf[k].builder = "h2h" THEN <<team, other>> ELSE <<team>>

\* news_query = f"{away_team_abbr} vs {home_team_abbr}"
news_query == away_team_abbr \o <<" ","v","s"," ">> \o home_team_abbr

\* the rows the database holds for a sub-query
PreviewRows(k) == << [key |-> k, params |-> QueryParams(k)] >>
\* conn.fetch under asyncio.wait_for, for the sub-query of key k
PreviewFetch(k, out) ==
  [out |-> out, rows |-> IF out = "ok" THEN PreviewRows(k) ELSE <<>>]

\* _UNSAFE_PATTERN.search(sql) for the statement of each builder
PreviewBuilders ==
  {"probable_starters", "season_averages", "h2h", "defense", "prop_picks", "trend",
   "splits"}
PreviewUnsafe == [b \in PreviewBuilders |-> UNSAFE_PATTERN_search(PreviewSql(b))]

\* _execute_query of game_preview_service: an unsafe statement (unsafe is the
\* result of the search above) and every exception give the empty list
ExecuteQueryNoExcept(unsafe, o) ==
  IF unsafe THEN [raised |-> FALSE, rows |-> <<>>]
  ELSE IF o.out = "ok" THEN [raised |-> FALSE, rows |-> o.rows]
  ELSE [raised |-> TRUE, rows |-> <<>>]
execute_query(unsafe, o) ==
  IF unsafe THEN [raised |-> FALSE, rows |-> <<>>]
  ELSE IF o.out = "ok" THEN [raised |-> FALSE, rows |-> o.rows]
  ELSE [raised |-> FALSE, rows |-> <<>>]

PreviewAnswers == { <<"game preview">> }
PREVIEW_APOLOGY ==
  <<"Sorry, something went wrong generating the game preview. Please try again.">>

\* game_preview: the response for a result of generate_game_preview, and the
\* apology when generate_game_preview raised
GamePreviewResponse(result) ==
  Some([answer |-> result.answer,
        category |-> get(result, "category", "game_preview"),
        sources |-> Some(get(result, "sources", None))])
GamePreviewError ==
  Some([answer |-> PREVIEW_APOLOGY, category |-> "error", sources |-> None])

\* game_preview calls generate_game_preview, which builds the plan and starts
\* the fourteen sub-queries and the news search
GamePreview ==
  /\ previewPc = "received"
  /\ previewPc' = "gather"
  /\ pending' = PLAN_KEYS
  /\ safePc' = "running"
  /\ newsPc' = "embed"
  /\ normalized' = news_query
  /\ UNCHANGED <<askVars, routePc, rq, category, routeRet, statsVars, newsRows,
                 newsRet, betVars, log, scoresVars, planVars, checkVars, rankVars>>
  /\ UNCHANGED <<home_team_abbr, away_team_abbr, db_out, collected_data, previewRet,
                 previewResponse, news_result>>

\* one sub-query returns; the gather reads its value once all have returned
QueryReturns ==
  /\ previewPc = "gather"
  /\ \E k \in pending : pending' = pending \ {k}
  /\ UNCHANGED <<requestVars, scoresVars, checkVars, rankVars, planVars>>
  /\ UNCHANGED <<home_team_abbr, away_team_abbr, previewPc, db_out, collected_data,
                 previewRet, previewResponse, safePc, news_result>>

\* _safe_news_search: the result of answer_news_question, or None when it raised
SafeNewsSearchNoExcept ==
  /\ safePc = "running"
  /\ newsPc \in {"returned", "raised"}
  /\ safePc' = IF newsPc = "returned" THEN "done" ELSE "raised"
  /\ news_result' = IF newsPc = "returned" THEN newsRet ELSE None
  /\ UNCHANGED <<requestVars, scoresVars, checkVars, rankVars, planVars>>
  /\ UNCHANGED <<home_team_abbr, away_team_abbr, previewPc, pending, db_out,
                 collected_data, previewRet, previewResponse>>
SafeNewsSearch ==
  /\ safePc = "running"
  /\ newsPc \in {"returned", "raised"}
  /\ safePc' = "done"
  /\ news_result' = IF newsPc = "returned" THEN newsRet ELSE None
  /\ UNCHANGED <<requestVars, scoresVars, checkVars, rankVars, planVars>>
  /\ UNCHANGED <<home_team_abbr, away_team_abbr, previewPc, pending, db_out,
                 collected_data, previewRet, previewResponse>>

\* await asyncio.gather(asyncio.gather(...), _safe_news_search(news_query)):
\* all fifteen awaitables have returned
GatherNotAwaited == safePc # "running"
GatherSettled == pending = {} /\ safePc # "running"

\* the kinds of failure of a sub-query: the driver raises, or wait_for times out
QueryFailures == {"error", "timeout"}

\* the gather returns db_results and news_result; collected_data is built from
\* them (lines 196-206).  An exception of an awaitable propagates to
\* game_preview, which answers with the apology.
PreviewGathered ==
  /\ previewPc = "gather"
  /\ GatherSettled
  /\ \E kind \in QueryFailures : \E outs \in [PLAN_KEYS -> {"ok", kind}] :
       LET db_result(k) ==
             execute_query(PreviewUnsafe[QueryOf[k].builder], PreviewFetch(k, outs[k]))
           news_keys == IF news_result # None THEN {"news"} ELSE {}
       IN  /\ db_out' = outs
           /\ IF safePc = "raised" \/ \E k \in PLAN_KEYS : db_result(k).raised THEN
                /\ previewPc' = "responded"
                /\ previewResponse' = GamePreviewError
                /\ UNCHANGED collected_data
              ELSE
                /\ previewPc' = "format"
                /\ collected_data' =
                     [k \in PLAN_KEYS \cup news_keys |->
                        IF k \in PLAN_KEYS THEN db_result(k).rows ELSE news_result]
                /\ UNCHANGED previewResponse
  /\ UNCHANGED <<requestVars, scoresVars, checkVars, rankVars, planVars>>
  /\ UNCHANGED <<home_team_abbr, away_team_abbr, pending, previewRet, safePc, news_result>>

\* the formatting call, the sources and the returned dict (lines 208-229), and
\* the response game_preview makes of it; a failure of the generation port
\* propagates to game_preview, which answers with the apology
PreviewFormat ==
  /\ previewPc = "format"
  /\ previewPc' = "responded"
  /\ \E o \in chat_completion(PreviewAnswers) :
       /\ log' = Append(log, Gen("format_preview",
                   [home_team |-> home_team_abbr, away_team |-> away_team_abbr,
                    data |-> collected_data], o))
       /\ IF o.out = "fail" THEN
            /\ previewResponse' = GamePreviewError
            /\ UNCHANGED previewRet
          ELSE
            LET result == [answer |-> o.text,
                           category |-> "game_preview",
                           sources |-> IF news_result # None
                                         THEN get(news_result, "sources", <<>>)
                                         ELSE <<>>]
            IN  /\ previewRet' = Some(result)
                /\ previewResponse' = GamePreviewResponse(result)
  /\ UNCHANGED <<askVars, routeVars, statsVars, newsVars, betVars, scoresVars, checkVars, rankVars, planVars>>
  /\ UNCHANGED <<home_team_abbr, away_team_abbr, pending, db_out, collected_data,
                 safePc, news_result>>

NextPreview ==
  \/ GamePreview
  \/ QueryReturns
  \/ NewsEmbed
  \/ NewsQuery
  \/ NewsSummarize
  \/ SafeNewsSearch
  \/ PreviewGathered
  \/ PreviewFormat

InitPreview ==
  /\ RequestInit("idle") /\ ScoresInit /\ PreviewInit("received") /\ PlanInit("idle")
  /\ CheckIdle /\ RankIdle

SpecPreview == InitPreview /\ [][NextPreview]_vars

(***************************************************************************)
(* Properties of the game preview                                          *)
(***************************************************************************)
\* the formatting call of the preview was made and the generation port failed
PreviewFormatFailed ==
  \E i \in GenCalls("format_preview") : log[i].out = "fail"
\* the sub-queries whose fetch raised or timed out
FailedKeys == {k \in DOMAIN db_out : db_out[k] # "ok"}

\* C11: whichever of the fourteen sub-queries fail (raise or time out), once
\* the gather has returned the evidence bundle holds all fourteen plan keys,
\* an empty list under each failed key and the query's own rows under each
\* other key; generate_game_preview raises only when the formatting call
\* itself fails (the response is then the apology), and otherwise returns
\* and is answered with category "game_preview".
C11_SubqueryFailuresIsolated ==
  DOMAIN db_out # {} =>
    /\ PLAN_KEYS \subseteq DOMAIN collected_data
    /\ \A k \in PLAN_KEYS :
         collected_data[k] = IF k \in FailedKeys THEN <<>> ELSE PreviewRows(k)
    /\ previewRet # None =>
         ~PreviewFormatFailed /\ previewRet.v.category = "game_preview"
    /\ previewPc = "responded" =>
         previewResponse.v.category =
           IF PreviewFormatFailed THEN "error" ELSE "game_preview"

\* thirteen of the fourteen sub-queries timed out and the preview was answered
C11_Witness ==
  /\ previewPc = "responded"
  /\ previewResponse.v.category = "game_preview"
  /\ Cardinality(FailedKeys) = Cardinality(PLAN_KEYS) - 1
  /\ \A k \in FailedKeys : db_out[k] = "timeout" /\ collected_data[k] = <<>>
  /\ \E k \in PLAN_KEYS \ FailedKeys : collected_data[k] = PreviewRows(k)

\* C12: when answer_news_question raises, _safe_news_search returns None and
\* the preview goes on: the evidence bundle has no "news" entry and holds the
\* fourteen sub-query results, the returned sources are the empty list, and
\* generate_game_preview raises only when the formatting call itself fails.
C12_NewsFailureOmitsNews ==
  /\ safePc # "raised"
  /\ newsPc = "raised" /\ safePc = "done" =>
       /\ news_result = None
       /\ DOMAIN db_out # {} =>
            /\ DOMAIN collected_data = PLAN_KEYS
            /\ \A k \in PLAN_KEYS :
                 collected_data[k] = execute_query(PreviewUnsafe[QueryOf[k].builder],
                                                   PreviewFetch(k, db_out[k])).rows
       /\ previewRet # None => previewRet.v.sources = <<>>
       /\ previewPc = "responded" /\ ~PreviewFormatFailed =>
            /\ previewResponse.v.category = "game_preview"
            /\ previewResponse.v.sources = Some(<<>>)

\* the news search raised, and the preview was answered without sources while
\* every sub-query succeeded
C12_Witness ==
  /\ newsPc = "raised"
  /\ previewPc = "responded"
  /\ previewResponse.v.category = "game_preview"
  /\ previewResponse.v.sources = Some(<<>>)
  /\ "news" \notin DOMAIN collected_data
  /\ FailedKeys = {}

(***************************************************************************)
(* JSON values and json.loads.  A text is a sequence of characters and     *)
(* words; the double quote, the brackets, the braces, the colon and the    *)
(* comma are always single characters.                                     *)
(***************************************************************************)
Quote == "\""

\* Python values decoded from JSON: None, bool, int, str, list, dict.  A dict
\* is the sequence of its members [k, v], the last member of a key winning.
JNull == [t |-> "null", s |-> <<>>, a |-> <<>>]
JBool(b) == [t |-> "bool", s |-> <<b>>, a |-> <<>>]
JNumber(digits) == [t |-> "number", s |-> digits, a |-> <<>>]
JString(chars) == [t |-> "string", s |-> chars, a |-> <<>>]
JArray(items) == [t |-> "array", s |-> <<>>, a |-> items]
JObject(members) == [t |-> "object", s |-> <<>>, a |-> members]

ParseFail == [ok |-> FALSE, v |-> JNull, next |-> 0]
Parsed(v, next) == [ok |-> TRUE, v |-> v, next |-> next]

\* the first position from i on that holds no whitespace
RECURSIVE SkipWs(_, _)
SkipWs(t, i) == IF i <= Len(t) /\ t[i] \in Whitespace THEN SkipWs(t, i + 1) ELSE i

\* the position of the quote that closes a string opened before i, or 0
StringEnd(t, i) ==
  LET closing == {j \in i..Len(t) : t[j] = Quote}
  IN  IF closing = {} THEN 0 ELSE Min(closing)

\* the last position of the run of digits that starts at i
RECURSIVE NumberEnd(_, _)
NumberEnd(t, i) ==
  IF i < Len(t) /\ t[i + 1] \in DigitChars THEN NumberEnd(t, i + 1) ELSE i

RECURSIVE ParseValue(_, _)
RECURSIVE ParseElements(_, _, _)
RECURSIVE ParseMembers(_, _, _)

\* one JSON value starting at or after position i0
ParseValue(t, i0) ==
  LET i == SkipWs(t, i0)
  IN  IF i > Len(t) THEN ParseFail
      ELSE IF t[i] = "null" THEN Parsed(JNull, i + 1)
      ELSE IF t[i] \in {"true", "false"} THEN Parsed(JBool(t[i]), i + 1)
      ELSE IF t[i] \in DigitChars THEN
        LET e == NumberEnd(t, i)
        IN  IF t[i] = "0" /\ e > i THEN ParseFail
            ELSE Parsed(JNumber(SubSeq(t, i, e)), e + 1)
      ELSE IF t[i] = Quote THEN
        LET e == StringEnd(t, i + 1)
        IN  IF e = 0 THEN ParseFail ELSE Parsed(JString(SubSeq(t, i + 1, e - 1)), e + 1)
      ELSE IF t[i] = "[" THEN
        LET j == SkipWs(t, i + 1)
        IN  IF j <= Len(t) /\ t[j] = "]" THEN Parsed(JArray(<<>>), j + 1)
            ELSE ParseElements(t, i + 1, <<>>)
      ELSE IF t[i] = "{" THEN
        LET j == SkipWs(t, i + 1)
        IN  IF j <= Len(t) /\ t[j] = "}" THEN Parsed(JObject(<<>>), j + 1)
            ELSE ParseMembers(t, i + 1, <<>>)
      ELSE ParseFail

\* the elements of an array from position i on, after the elements acc
ParseElements(t, i, acc) ==
  LET r == ParseValue(t, i)
      j == SkipWs(t, r.next)
  IN  IF ~r.ok \/ j > Len(t) THEN ParseFail
      ELSE IF t[j] = "," THEN ParseElements(t, j + 1, Append(acc, r.v))
      ELSE IF t[j] = "]" THEN Parsed(JArray(Append(acc, r.v)), j + 1)
      ELSE ParseFail

\* the members of an object from position i0 on, after the members acc
ParseMembers(t, i0, acc) ==
  LET i == SkipWs(t, i0)
      e == IF i <= Len(t) /\ t[i] = Quote THEN StringEnd(t, i + 1) ELSE 0
      c == SkipWs(t, e + 1)
  IN  IF e = 0 \/ c > Len(t) THEN ParseFail
      ELSE IF t[c] # ":" THEN ParseFail
      ELSE
        LET r == ParseValue(t, c + 1)
            j == SkipWs(t, r.next)
            member == [k |-> SubSeq(t, i + 1, e - 1), v |-> r.v]
        IN  IF ~r.ok \/ j > Len(t) THEN ParseFail
            ELSE IF t[j] = "," THEN ParseMembers(t, j + 1, Append(acc, member))
            ELSE IF t[j] = "}" THEN Parsed(JObject(Append(acc, member)), j + 1)
            ELSE ParseFail

\* json.loads(text): the value, or JSONDecodeError
json_loads(text) ==
  LET r == ParseValue(text, 1)
  IN  IF r.ok /\ SkipWs(text, r.next) > Len(text)
        THEN [ok |-> TRUE, v |-> r.v]
        ELSE [ok |-> FALSE, v |-> JNull]

(***************************************************************************)
(* Python operations on decoded values, as answer_betting_question uses    *)
(* them; an operation that raises gives Raised                             *)
(***************************************************************************)
Ok(v) == [raised |-> FALSE, v |-> v]
Raised == [raised |-> TRUE, v |-> JNull]

\* bool(x)
Truthy(j) ==
  CASE j.t = "null" -> FALSE
    [] j.t = "bool" -> j.s = <<"true">>
    [] j.t = "number" -> \E i \in DOMAIN j.s : j.s[i] # "0"
    [] j.t = "string" -> Len(j.s) > 0
    [] OTHER -> Len(j.a) > 0

\* x.get(key, default): AttributeError unless x is a dict
py_get(j, key, default) ==
  IF j.t # "object" THEN Raised
  ELSE LET hits == {i \in DOMAIN j.a : j.a[i].k = key}
       IN  Ok(IF hits = {} THEN default ELSE j.a[Max(hits)].v)

\* for x in j: the elements of a list, the characters of a str, the keys of a
\* dict; TypeError for None, bool and int
py_iter(j) ==
  CASE j.t = "array" -> Ok(j.a)
    [] j.t = "string" -> Ok([i \in DOMAIN j.s |-> JString(<<j.s[i]>>)])
    [] j.t = "object" -> Ok([i \in DOMAIN j.a |-> JString(j.a[i].k)])
    [] OTHER -> Raised

\* x[0] of a truthy x: the first element of a list, the first character of a
\* str; KeyError for a dict (its keys are strings), TypeError for bool and int
py_first(j) ==
  CASE j.t = "array" -> Ok(j.a[1])
    [] j.t = "string" -> Ok(JString(<<j.s[1]>>))
    [] OTHER -> Raised

\* x[:3]: a list or a str; TypeError for None, bool, int and dict
py_slice3(j) ==
  CASE j.t = "array" -> Ok(JArray(FirstN(j.a, 3)))
    [] j.t = "string" -> Ok(JString(FirstN(j.s, 3)))
    [] OTHER -> Raised

\* str(x) inside an f-string, for None, bool, int and str
py_str(j) ==
  CASE j.t = "null" -> <<"None">>
    [] j.t = "bool" -> IF j.s = <<"true">> THEN <<"True">> ELSE <<"False">>
    [] OTHER -> j.s

lower_char(c) ==
  IF IsUpper(c)
    THEN LowerLetters[CHOOSE i \in 1..Len(UpperLetters) : UpperLetters[i] = c]
    ELSE c
\* str.lower()
lower(s) == [i \in 1..Len(s) |-> lower_char(s[i])]

\* s.replace(" ", "_")
replace_space(s) == [i \in 1..Len(s) |-> IF s[i] = " " THEN "_" ELSE s[i]]

\* str.endswith(p)
endswith(s, p) == Len(s) >= Len(p) /\ SubSeq(s, Len(s) - Len(p) + 1, Len(s)) = p

(***************************************************************************)
(* _parse_betting_intent and the opponent resolution                       *)
(***************************************************************************)
FENCE == <<Backtick, Backtick, Backtick>>

\* lines 30-36: raw.strip(), then the Markdown fence removed
StripFence(text) ==
  LET stripped == strip(text)
      newlines == {i \in DOMAIN stripped : stripped[i] = "\n"}
      opened == IF newlines # {}
                  THEN SubSeq(stripped, Min(newlines) + 1, Len(stripped))
                  ELSE SubSeq(stripped, Len(FENCE) + 1, Len(stripped))
      closed == IF endswith(opened, FENCE)
                  THEN SubSeq(opened, 1, Len(opened) - Len(FENCE))
                  ELSE opened
  IN  IF startswith(stripped, FENCE) THEN strip(closed) ELSE stripped

\* the intent returned on json.JSONDecodeError
DEFAULT_INTENT ==
  JObject(<< [k |-> <<"type">>, v |-> JString(<<"FIND_PICKS">>)],
             [k |-> <<"players">>, v |-> JArray(<<>>)],
             [k |-> <<"props">>, v |-> JArray(<<>>)],
             [k |-> <<"teams">>, v |-> JArray(<<>>)],
             [k |-> <<"opponent">>, v |-> JNull],
             [k |-> <<"location">>, v |-> JNull] >>)

\* lines 37-47 applied to the text the generation port returned
ParseIntentNoExcept(text) ==
  LET r == json_loads(StripFence(text))
  IN  IF r.ok THEN Ok(r.v) ELSE Raised
parse_betting_intent(text) ==
  LET r == json_loads(StripFence(text))
  IN  IF r.ok THEN Ok(r.v) ELSE Ok(DEFAULT_INTENT)

\* TEAM_ABBR_MAP, in source order
TEAM_ABBR_MAP ==
  << [name |-> <<"h","a","w","k","s">>, abbr |-> "ATL"],
     [name |-> <<"c","e","l","t","i","c","s">>, abbr |-> "BOS"],
     [name |-> <<"n","e","t","s">>, abbr |-> "BKN"],
     [name |-> <<"h","o","r","n","e","t","s">>, abbr |-> "CHA"],
     [name |-> <<"b","u","l","l","s">>, abbr |-> "CHI"],
     [name |-> <<"c","a","v","a","l","i","e","r","s">>, abbr |-> "CLE"],
     [name |-> <<"c","a","v","s">>, abbr |-> "CLE"],
     [name |-> <<"m","a","v","e","r","i","c","k","s">>, abbr |-> "DAL"],
     [name |-> <<"m","a","v","s">>, abbr |-> "DAL"],
     [name |-> <<"n","u","g","g","e","t","s">>, abbr |-> "DEN"],
     [name |-> <<"p","i","s","t","o","n","s">>, abbr |-> "DET"],
     [name |-> <<"w","a","r","r","i","o","r","s">>, abbr |-> "GSW"],
     [name |-> <<"r","o","c","k","e","t","s">>, abbr |-> "HOU"],
     [name |-> <<"p","a","c","e","r","s">>, abbr |-> "IND"],
     [name |-> <<"c","l","i","p","p","e","r","s">>, abbr |-> "LAC"],
     [name |-> <<"l","a","k","e","r","s">>, abbr |-> "LAL"],
     [name |-> <<"g","r","i","z","z","l","i","e","s">>, abbr |-> "MEM"],
     [name |-> <<"h","e","a","t">>, abbr |-> "MIA"],
     [name |-> <<"b","u","c","k","s">>, abbr |-> "MIL"],
     [name |-> <<"t","i","m","b","e","r","w","o","l","v","e","s">>, abbr |-> "MIN"],
     [name |-> <<"w","o","l","v","e","s">>, abbr |-> "MIN"],
     [name |-> <<"p","e","l","i","c","a","n","s">>, abbr |-> "NOP"],
     [name |-> <<"k","n","i","c","k","s">>, abbr |-> "NYK"],
     [name |-> <<"t","h","u","n","d","e","r">>, abbr |-> "OKC"],
     [name |-> <<"m","a","g","i","c">>, abbr |-> "ORL"],
     [name |-> <<"7","6","e","r","s">>, abbr |-> "PHI"],
     [name |-> <<"s","i","x","e","r","s">>, abbr |-> "PHI"],
     [name |-> <<"s","u","n","s">>, abbr |-> "PHX"],
     [name |-> <<"b","l","a","z","e","r","s">>, abbr |-> "POR"],
     [name |-> <<"t","r","a","i","l"," ","b","l","a","z","e","r","s">>, abbr |-> "POR"],
     [name |-> <<"k","i","n","g","s">>, abbr |-> "SAC"],
     [name |-> <<"s","p","u","r","s">>, abbr |-> "SAS"],
     [name |-> <<"r","a","p","t","o","r","s">>, abbr |-> "TOR"],
     [name |-> <<"j","a","z","z">>, abbr |-> "UTA"],
     [name |-> <<"w","i","z","a","r","d","s">>, abbr |-> "WAS"],
     [name |-> <<"a","t","l">>, abbr |-> "ATL"],
     [name |-> <<"b","o","s">>, abbr |-> "BOS"],
     [name |-> <<"b","k","n">>, abbr |-> "BKN"],
     [name |-> <<"c","h","a">>, abbr |-> "CHA"],
     [name |-> <<"c","h","i">>, abbr |-> "CHI"],
     [name |-> <<"c","l","e">>, abbr |-> "CLE"],
     [name |-> <<"d","a","l">>, abbr |-> "DAL"],
     [name |-> <<"d","e","n">>, abbr |-> "DEN"],
     [name |-> <<"d","e","t">>, abbr |-> "DET"],
     [name |-> <<"g","s","w">>, abbr |-> "GSW"],
     [name |-> <<"h","o","u">>, abbr |-> "HOU"],
     [name |-> <<"i","n","d">>, abbr |-> "IND"],
     [name |-> <<"l","a","c">>, abbr |-> "LAC"],
     [name |-> <<"l","a","l">>, abbr |-> "LAL"],
     [name |-> <<"m","e","m">>, abbr |-> "MEM"],
     [name |-> <<"m","i","a">>, abbr |-> "MIA"],
     [name |-> <<"m","i","l">>, abbr |-> "MIL"],
     [name |-> <<"m","i","n">>, abbr |-> "MIN"],
     [name |-> <<"n","o","p">>, abbr |-> "NOP"],
     [name |-> <<"n","y","k">>, abbr |-> "NYK"],
     [name |-> <<"o","k","c">>, abbr |-> "OKC"],
     [name |-> <<"o","r","l">>, abbr |-> "ORL"],
     [name |-> <<"p","h","i">>, abbr |-> "PHI"],
     [name |-> <<"p","h","x">>, abbr |-> "PHX"],
     [name |-> <<"p","o","r">>, abbr |-> "POR"],
     [name |-> <<"s","a","c">>, abbr |-> "SAC"],
     [name |-> <<"s","a","s">>, abbr |-> "SAS"],
     [name |-> <<"t","o","r">>, abbr |-> "TOR"],
     [name |-> <<"u","t","a">>, abbr |-> "UTA"],
     [name |-> <<"w","a","s">>, abbr |-> "WAS"] >>

\* TEAM_ABBR_MAP.get(name)
TeamAbbr(name) ==
  LET hits == {i \in DOMAIN TEAM_ABBR_MAP : TEAM_ABBR_MAP[i].name = name}
  IN  IF hits = {} THEN None ELSE Some(TEAM_ABBR_MAP[Max(hits)].abbr)

\* _resolve_team_abbr: None for a falsy argument; AttributeError for a truthy
\* argument that is no str
resolve_team_abbr(team_str) ==
  IF ~Truthy(team_str) THEN Ok(None)
  ELSE IF team_str.t # "string" THEN Raised
  ELSE Ok(TeamAbbr(strip(lower(team_str.s))))

\* lines 321-325: the first entry that resolves
RECURSIVE FirstResolved(_, _)
FirstResolved(items, i) ==
  IF i > Len(items) THEN Ok(None)
  ELSE LET r == resolve_team_abbr(items[i])
       IN  IF r.raised THEN Raised
           ELSE IF ~r.v.none THEN r
           ELSE FirstResolved(items, i + 1)

\* lines 318-325: opponent_abbr
ResolveOpponentTeamsFirst(opponent_raw, teams_raw) ==
  LET first == resolve_team_abbr(opponent_raw)
      teams == py_iter(teams_raw)
      listed == FirstResolved(teams.v, 1)
  IN  IF first.raised THEN Raised
      ELSE IF ~Truthy(teams_raw) THEN first
      ELSE IF teams.raised \/ listed.raised THEN Raised
      ELSE IF ~listed.v.none THEN listed
      ELSE first
ResolveOpponent(opponent_raw, teams_raw) ==
  LET first == resolve_team_abbr(opponent_raw)
      teams == py_iter(teams_raw)
  IN  IF first.raised THEN Raised
      ELSE IF ~first.v.none \/ ~Truthy(teams_raw) THEN first
      ELSE IF teams.raised THEN Raised
      ELSE FirstResolved(teams.v, 1)

(***************************************************************************)
(* answer_betting_question: the sub-queries and what the ports give them   *)
(***************************************************************************)
\* the statements of the query builders, by their opening words
BettingTemplates ==
  {"hit_rate", "trend", "splits", "matchup", "opp_defense", "find_picks",
   "player_team", "b2b_today"}
BettingSql(template) ==
  IF template = "trend"
    THEN <<"W","I","T","H"," ","r","e","c","e","n","t"," ","A","S">>
    ELSE <<"S","E","L","E","C","T">>
\* _UNSAFE_PATTERN.search(sql) for the statement of each builder
BettingUnsafe == [b \in BettingTemplates |-> UNSAFE_PATTERN_search(BettingSql(b))]

\* _execute_query of betting_service: an unsafe statement (unsafe is the
\* result of the search above) and every exception give the empty list
BettingExecuteNoExcept(unsafe, o) ==
  IF unsafe THEN [raised |-> FALSE, rows |-> <<>>]
  ELSE IF o.out = "ok" THEN [raised |-> FALSE, rows |-> o.rows]
  ELSE [raised |-> TRUE, rows |-> <<>>]
betting_execute_query(unsafe, o) ==
  IF unsafe THEN [raised |-> FALSE, rows |-> <<>>]
  ELSE IF o.out = "ok" THEN [raised |-> FALSE, rows |-> o.rows]
  ELSE [raised |-> FALSE, rows |-> <<>>]

\* an awaitable of a gather: the statement of a builder with its parameters,
\* or _get_todays_schedule, under the key its result is filed under
Sub(key, template, params) ==
  [key |-> key, template |-> template, params |-> params, out |-> "pending",
   rows |-> <<>>, stage |-> "", player |-> 0]

\* a player the database knows
LEBRON == <<"LeBron", " ", "James">>
\* the rows the database holds for a sub-query
BettingRows(sub) ==
  CASE sub.template = "find_picks" -> << [display_name |-> LEBRON] >>
    [] sub.template = "player_team" -> << [display_name |-> LEBRON, team_abbr |-> "LAL"] >>
    [] sub.template = "b2b_today" -> << [team_abbr |-> "BOS"] >>
    [] OTHER -> << [template |-> sub.template, params |-> sub.params] >>
\* conn.fetch under asyncio.wait_for
BettingFetch(sub, out) ==
  [out |-> out, rows |-> IF out = "ok" THEN BettingRows(sub) ELSE <<>>]

\* what get_scores may return to _get_todays_schedule: today's games, the
\* games of a later day, or an exception
ScoresResults == {"today", "later", "raise"}
ScoresPayload(kind) ==
  IF kind = "today"
    THEN [games |-> <<Game("LAL", "BOS", "Q3")>>, label |-> "Today"]
    ELSE fetch_upcoming("games", "games")

\* lines 194-201: the schedule of a payload
ScheduleOf(scores) ==
  LET games == get(scores, "games", <<>>)
      valid == {i \in DOMAIN games :
                  games[i].home_team_abbr # "" /\ games[i].away_team_abbr # ""}
      teams == {games[i].home_team_abbr : i \in valid}
                 \cup {games[i].away_team_abbr : i \in valid}
  IN  [t \in teams |->
         LET i == Max({g \in valid : t \in {games[g].home_team_abbr,
                                             games[g].away_team_abbr}})
         IN  IF games[i].away_team_abbr = t
               THEN [opponent |-> games[i].home_team_abbr, location |-> "away"]
               ELSE [opponent |-> games[i].away_team_abbr, location |-> "home"]]

\* _get_todays_schedule: the schedule, or {} when get_scores raises
get_todays_schedule(kind) ==
  IF kind = "raise" THEN <<>> ELSE ScheduleOf(ScoresPayload(kind))

\* how an awaitable may settle, and the value the gather then holds for it
SubOutcomes(sub) ==
  IF sub.template = "schedule" THEN ScoresResults ELSE {"ok", "error", "timeout"}
SubResult(sub, out) ==
  IF sub.template = "schedule"
    THEN [raised |-> FALSE, rows |-> get_todays_schedule(out)]
    ELSE betting_execute_query(BettingUnsafe[sub.template], BettingFetch(sub, out))

\* a dict built by successive assignments: each key once, at the place of its
\* first assignment, with the value of its last
RECURSIVE DictOf(_)
DictOf(items) ==
  IF items = <<>> THEN <<>>
  ELSE LET n == Len(items)
           front == DictOf(SubSeq(items, 1, n - 1))
           at == {i \in DOMAIN front : front[i].key = items[n].key}
       IN  IF at = {} THEN Append(front, items[n])
           ELSE [front EXCEPT ![Min(at)] = items[n]]

\* the single-digit index of an f-string
Digits == <<"0","1","2","3","4","5","6","7","8","9">>

(***************************************************************************)
(* answer_betting_question: the plan of each intent                        *)
(***************************************************************************)
\* lines 311-315, for an intent that is a dict
IntentType(i) == py_get(i, <<"type">>, JString(<<"FIND_PICKS">>)).v
Players(i) == py_get(i, <<"players">>, JArray(<<>>)).v
Props(i) == py_get(i, <<"props">>, JArray(<<>>)).v
OpponentRaw(i) == py_get(i, <<"opponent">>, JNull).v
TeamsRaw(i) == py_get(i, <<"teams">>, JArray(<<>>)).v

\* what a synchronous stretch of the function leaves behind: an exception, or
\* the evidence collected so far, the gather to await next with the
\* awaitables to start, and opp_set
StepRaised ==
  [raised |-> TRUE, stage |-> "raised", player |-> 0, issue |-> <<>>,
   collected |-> <<>>, opp_set |-> {}]
Step(st, player, issue, coll, opps) ==
  [raised |-> FALSE, stage |-> st, player |-> player, issue |-> issue,
   collected |-> coll, opp_set |-> opps]

ScheduleTask == Sub(<<"todays_schedule">>, "schedule", <<>>)
B2bTask == Sub(<<"teams_on_b2b">>, "b2b_today", <<>>)
PlayerTeamTask(names) == Sub(<<"player_teams">>, "player_team", <<names>>)
FindPicksTask == Sub(<<"high_hit_rate_props">>, "find_picks", <<>>)

\* lines 333-338
PropCheckQueries(player_name, opp) ==
  << Sub(<<"hit_rate">>, "hit_rate", <<player_name>>),
     Sub(<<"trend">>, "trend", <<player_name>>),
     Sub(<<"splits">>, "splits", <<player_name>>) >>
  \o (IF opp.none THEN <<>>
      ELSE << Sub(<<"matchup">>, "matchup", <<player_name, opp.v>>),
              Sub(<<"opp_defense">>, "opp_defense", <<opp.v>>) >>)

\* lines 453-463: the legs from position n on (enumerate counts from 0)
RECURSIVE ParlayLegs(_, _)
ParlayLegs(items, n) ==
  IF n > Len(items) THEN Ok(<<>>)
  ELSE LET player_name == py_get(items[n], <<"player">>, JString(<<>>))
           rest == ParlayLegs(items, n + 1)
           prefix == <<"leg", Digits[n]>>
       IN  IF player_name.raised \/ rest.raised THEN Raised
           ELSE IF ~Truthy(player_name.v) THEN rest
           ELSE Ok(<< Sub(prefix \o <<"_", "hit_rate">>, "hit_rate", <<player_name.v>>),
                      Sub(prefix \o <<"_", "trend">>, "trend", <<player_name.v>>) >>
                   \o rest.v)
ParlayQueries(props, opp) ==
  LET items == py_iter(props)
      legs == ParlayLegs(items.v, 1)
  IN  IF items.raised THEN Raised
      ELSE IF legs.raised THEN Raised
      ELSE Ok(DictOf(legs.v \o (IF opp.none THEN <<>>
                                ELSE << Sub(<<"opp_defense">>, "opp_defense", <<opp.v>>) >>)))

\* lines 476-485
RECURSIVE TeamDefenses(_, _)
TeamDefenses(items, n) ==
  IF n > Len(items) THEN Ok(<<>>)
  ELSE LET abbr == resolve_team_abbr(items[n])
           rest == TeamDefenses(items, n + 1)
       IN  IF abbr.raised \/ rest.raised THEN Raised
           ELSE IF abbr.v.none THEN rest
           ELSE Ok(<< Sub(<<"defense", "_", abbr.v.v>>, "opp_defense", <<abbr.v.v>>) >>
                   \o rest.v)
PlayerTrends(items) ==
  IF items = <<>> THEN <<>>
  ELSE LET one(p) == << Sub(<<"trend", "_">> \o py_str(p), "trend", <<p>>),
                        Sub(<<"hits", "_">> \o py_str(p), "hit_rate", <<p>>) >>
           RECURSIVE all(_)
           all(n) == IF n > Len(items) THEN <<>> ELSE one(items[n]) \o all(n + 1)
       IN  all(1)
TeamsQueries(teams_raw, players) ==
  LET teams == py_iter(teams_raw)
      defenses == TeamDefenses(teams.v, 1)
      first3 == py_slice3(players)
      named == py_iter(first3.v)
  IN  IF teams.raised THEN Raised
      ELSE IF defenses.raised \/ first3.raised THEN Raised
      ELSE Ok(DictOf(defenses.v \o PlayerTrends(named.v)))

\* lines 255-302: the warnings for the legs of a parlay (a list of dicts);
\* TypeError when a player value is unhashable
RoundDiv(num, den) == (2 * num + den) \div (2 * den)
RECURSIVE Power(_, _)
Power(b, n) == IF n = 0 THEN 1 ELSE b * Power(b, n - 1)
detect_parlay_correlations(props) ==
  LET legs == props.a
      n == Len(legs)
      name(j) == py_get(legs[j], <<"player">>, JString(<<>>)).v
      stat(j) == py_get(legs[j], <<"stat">>, JNull).v
      direction(j) == py_get(legs[j], <<"direction">>, JString(<<"over">>)).v
      firsts == {j \in 1..n : \A h \in 1..(j - 1) : name(h) # name(j)}
      both(j) ==
        /\ Cardinality({h \in 1..n : name(h) = name(j)}) > 1
        /\ \E h \in 1..n : name(h) = name(j) /\ stat(h) = JString(<<"pts">>)
        /\ \E h \in 1..n : name(h) = name(j) /\ stat(h) = JString(<<"ast">>)
      RECURSIVE same_player(_)
      same_player(j) ==
        IF j > n THEN <<>>
        ELSE (IF j \in firsts /\ both(j)
                THEN << [kind |-> "same_player", name |-> py_str(name(j)), n |-> 0, pct |-> 0] >>
                ELSE <<>>) \o same_player(j + 1)
      over_pts_count ==
        Cardinality({j \in 1..n : stat(j) = JString(<<"pts">>)
                                    /\ direction(j) = JString(<<"over">>)})
  IN  IF n < 2 THEN Ok(<<>>)
      ELSE IF \E j \in 1..n : name(j).t \in {"array", "object"} THEN Raised
      ELSE Ok(same_player(1)
              \o (IF over_pts_count >= 2
                    THEN << [kind |-> "multiple_over_pts", name |-> <<>>, n |-> 0, pct |-> 0] >>
                    ELSE <<>>)
              \o (IF n >= 3
                    THEN << [kind |-> "legs", name |-> <<>>, n |-> n,
                             pct |-> RoundDiv(Power(7, n) * 100, Power(10, n))] >>
                    ELSE <<>>))

\* list(opp_set), in some order
RECURSIVE ListOf(_)
ListOf(S) ==
  IF S = {} THEN <<>>
  ELSE LET x == CHOOSE y \in S : TRUE IN <<x>> \o ListOf(S \ {x})

\* {r["display_name"]: r["team_abbr"] for r in pt_rows}
PlayerTeamMap(rows) ==
  [name \in {rows[j].display_name : j \in DOMAIN rows} |->
     rows[Max({j \in DOMAIN rows : rows[j].display_name = name})].team_abbr]

\* the results of a gather, filed under the keys of their awaitables
Keyed(done) ==
  [k \in {done[j].key : j \in DOMAIN done} |->
     done[Max({j \in DOMAIN done : done[j].key = k})].rows]
ResultOf(done, key) == Keyed(done)[key]

\* lines 331-498 up to the first gather, with the else branch of line 494
\* taken by every intent
FirstStageFallbackOnly(i, opp) == Step("fallback", 0, <<FindPicksTask>>, <<>>, {})
\* lines 331-498 up to the first gather: the branch of the intent
FirstStage(i, opp) ==
  LET players == Players(i)
      props == Props(i)
      player_name == py_first(players)
      first3 == py_slice3(players)
      legs == ParlayQueries(props, opp)
      teams == TeamsQueries(TeamsRaw(i), players)
  IN  IF IntentType(i) = JString(<<"PROP_CHECK">>) /\ Truthy(players) THEN
        IF player_name.raised THEN StepRaised
        ELSE Step("prop_check", 0, PropCheckQueries(player_name.v, opp), <<>>, {})
      ELSE IF IntentType(i) = JString(<<"FIND_PICKS">>) THEN
        IF Truthy(players) THEN
          IF first3.raised THEN StepRaised
          ELSE Step("prefetch", 0,
                    <<ScheduleTask, B2bTask, PlayerTeamTask(first3.v)>>, <<>>, {})
        ELSE Step("scan", 0, <<FindPicksTask, ScheduleTask, B2bTask>>, <<>>, {})
      ELSE IF IntentType(i) = JString(<<"PARLAY">>) /\ Truthy(props) THEN
        IF legs.raised THEN StepRaised ELSE Step("parlay", 0, legs.v, <<>>, {})
      ELSE IF IntentType(i) = JString(<<"GAME_PREVIEW">>) THEN
        IF teams.raised THEN StepRaised
        ELSE IF teams.v = <<>> THEN Step("format", 0, <<>>, <<>>, {})
        ELSE Step("teams", 0, teams.v, <<>>, {})
      ELSE Step("fallback", 0, <<FindPicksTask>>, <<>>, {})

\* lines 401-409 and 441-449: the defense queries of the opponents, if any
DefenseStep(coll, opps) ==
  LET opp_list == ListOf(opps)
  IN  IF opps = {} THEN Step("format", 0, <<>>, coll, opps)
      ELSE Step("defense", 0,
                [n \in DOMAIN opp_list |->
                   Sub(<<"opponent_defense", opp_list[n]>>, "opp_defense", <<opp_list[n]>>)],
                coll, opps)

\* lines 377-397 for the n-th of players[:3], and lines 401-409 after the last
PlayerStep(i, n, opp, coll, opps) ==
  LET names == py_iter(py_slice3(Players(i)).v).v
      player_name == names[n]
      prefix == replace_space(player_name.s)
      schedule == coll[<<"todays_schedule">>]
      team == get(coll[<<"player_teams">>], player_name.s, "")
      effective_opp ==
        IF ~opp.none THEN opp
        ELSE IF team # "" /\ team \in DOMAIN schedule THEN Some(schedule[team].opponent)
        ELSE None
      player_queries ==
        << Sub(prefix \o <<"_", "hit_rate">>, "hit_rate", <<player_name>>),
           Sub(prefix \o <<"_", "trend">>, "trend", <<player_name>>),
           Sub(prefix \o <<"_", "splits">>, "splits", <<player_name>>) >>
        \o (IF effective_opp.none THEN <<>>
            ELSE << Sub(prefix \o <<"_", "matchup">>, "matchup",
                        <<player_name, effective_opp.v>>) >>)
  IN  IF n > Len(names) THEN DefenseStep(coll, opps)
      ELSE IF player_name.t # "string" THEN StepRaised
      ELSE Step("player", n, player_queries, coll,
                opps \cup (IF effective_opp.none THEN {} ELSE {effective_opp.v}))

\* the synchronous stretch after the gather of stage st has returned done
Continue(st, n, i, opp, coll, opps, done) ==
  LET filed == Keyed(done) @@ coll
      first_prop == py_first(Props(i))
      warnings == detect_parlay_correlations(Props(i))
      schedule == ResultOf(done, <<"todays_schedule">>)
      b2b_rows == ResultOf(done, <<"teams_on_b2b">>)
      pick_results == ResultOf(done, <<"high_hit_rate_props">>)
      player_team_map == PlayerTeamMap(ResultOf(done, <<"player_teams">>))
      today == coll[<<"todays_schedule">>]
  IN  CASE st = "prop_check" ->
             IF ~Truthy(Props(i)) THEN Step("format", 0, <<>>, filed, opps)
             ELSE IF first_prop.raised THEN StepRaised
             ELSE Step("format", 0, <<>>, (<<"requested_prop">> :> first_prop.v) @@ filed, opps)
        [] st = "prefetch" ->
             PlayerStep(i, 1, opp,
                        (<<"todays_schedule">> :> schedule)
                          @@ (<<"teams_on_b2b">> :> {b2b_rows[j].team_abbr : j \in DOMAIN b2b_rows})
                          @@ (<<"player_teams">> :> player_team_map) @@ coll,
                        IF opp.none THEN {} ELSE {opp.v})
        [] st = "player" -> PlayerStep(i, n + 1, opp, filed, opps)
        [] st = "defense" ->
             Step("format", 0, <<>>,
                  (<<"opponent_defense">> :>
                     [o \in {done[j].params[1] : j \in {h \in DOMAIN done : done[h].rows # <<>>}} |->
                        done[CHOOSE j \in DOMAIN done : done[j].params[1] = o].rows]) @@ coll,
                  opps)
        [] st = "scan" ->
             LET c == (<<"high_hit_rate_props">> :> pick_results)
                        @@ (<<"todays_schedule">> :> schedule)
                        @@ (<<"teams_on_b2b">> :> [j \in DOMAIN b2b_rows |-> b2b_rows[j].team_abbr])
                        @@ coll
                 player_names == JArray([j \in DOMAIN pick_results |->
                                           JString(pick_results[j].display_name)])
             IN  IF pick_results = <<>> THEN Step("format", 0, <<>>, c, opps)
                 ELSE Step("scan_teams", 0, <<PlayerTeamTask(player_names)>>, c, opps)
        [] st = "scan_teams" ->
             DefenseStep((<<"player_teams">> :> player_team_map) @@ coll,
                         {today[player_team_map[name]].opponent :
                            name \in {x \in DOMAIN player_team_map :
                                        player_team_map[x] \in DOMAIN today}})
        [] st = "parlay" ->
             IF warnings.raised THEN StepRaised
             ELSE Step("format", 0, <<>>,
                       (<<"parlay_legs">> :> Props(i))
                         @@ (<<"correlation_warnings">> :> warnings.v) @@ filed,
                       opps)
        [] OTHER -> Step("format", 0, <<>>, filed, opps)

(***************************************************************************)
(* Texts the intent parser may return                                      *)
(***************************************************************************)
\* a string literal, a member, and a list or an object of the given parts
QS(chars) == <<Quote>> \o chars \o <<Quote>>
Member(k, v) == QS(<<k>>) \o <<":", " ">> \o v
RECURSIVE Joined(_)
Joined(parts) ==
  IF parts = <<>> THEN <<>>
  ELSE IF Len(parts) = 1 THEN parts[1]
  ELSE parts[1] \o <<",", " ">> \o Joined(Tail(parts))
Arr(parts) == <<"[">> \o Joined(parts) \o <<"]">>
Obj(parts) == <<"{">> \o Joined(parts) \o <<"}">>

\* not JSON: empty, prose, a truncated object, a bare fence
NotJsonTexts ==
  { <<>>,
    <<"Sorry", ",", " ", "no", " ", "bets">>,
    <<"{">> \o Member("type", QS(<<"FIND_PICKS">>)) \o <<",">>,
    FENCE }

\* an opponent the table does not hold, before teams of which the second
\* resolves (in another letter case, with a space in front)
UNRESOLVED_OPPONENT_TEXT ==
  Obj(<< Member("type", QS(<<"GAME_PREVIEW">>)),
         Member("opponent", QS(<<"M","a","r","s">>)),
         Member("teams", Arr(<< QS(<<"n","b","a">>),
                                QS(<<" ","L","a","k","e","r","s">>),
                                QS(<<"B","O","S">>) >>)) >>)
\* an opponent that resolves, before a team that resolves too
EXPLICIT_OPPONENT_TEXT ==
  Obj(<< Member("type", QS(<<"GAME_PREVIEW">>)),
         Member("opponent", QS(<<"b","o","S"," ">>)),
         Member("teams", Arr(<< QS(<<"L","A","L">>) >>)) >>)

\* no type but a player: intent.get("type", "FIND_PICKS") supplies the type
UNTYPED_PLAYER_TEXT == Obj(<< Member("players", Arr(<< QS(LEBRON) >>)) >>)
\* a type that is none of the four, with a player
UNKNOWN_TYPE_TEXT ==
  Obj(<< Member("type", QS(<<"F","O","O">>)),
         Member("players", Arr(<< QS(LEBRON) >>)) >>)
\* a prop check that names no player, a parlay that names no prop
BARE_PROP_CHECK_TEXT == Obj(<< Member("type", QS(<<"PROP_CHECK">>)) >>)
BARE_PARLAY_TEXT == Obj(<< Member("type", QS(<<"PARLAY">>)) >>)

\* picks for a player against an opponent that is not the one of the schedule
EXPLICIT_PICKS_TEXT ==
  Obj(<< Member("type", QS(<<"FIND_PICKS">>)),
         Member("players", Arr(<< QS(LEBRON) >>)),
         Member("opponent", QS(<<"N","u","g","g","e","t","s">>)) >>)

\* JSON objects of the BettingIntent shape, the first inside a fence
IntentObjectTexts ==
  { FENCE \o <<"json", "\n">>
      \o Obj(<< Member("type", QS(<<"PROP_CHECK">>)),
                Member("players", Arr(<< QS(LEBRON) >>)),
                Member("props", Arr(<< Obj(<< Member("player", QS(LEBRON)),
                                              Member("stat", QS(<<"pts">>)) >>) >>)),
                Member("opponent", QS(<<"C","e","l","t","i","c","s"," ">>)) >>)
      \o <<"\n">> \o FENCE,
    <<"{", "}">>,
    Obj(<< Member("type", QS(<<"FIND_PICKS">>)),
           Member("players", Arr(<< QS(LEBRON) >>)) >>),
    Obj(<< Member("type", QS(<<"FIND_PICKS">>)),
           Member("players", Arr(<< QS(LEBRON), QS(replace_space(LEBRON)) >>)) >>),
    Obj(<< Member("type", QS(<<"PARLAY">>)),
           Member("props", Arr(<< Obj(<< Member("player", QS(<<"A">>)),
                                         Member("stat", QS(<<"pts">>)) >>),
                                  Obj(<< Member("player", QS(<<"A">>)),
                                         Member("stat", QS(<<"ast">>)) >>) >>)),
           Member("teams", Arr(<< QS(<<"n","b","a">>), QS(<<"L","A","L">>) >>)) >>),
    Obj(<< Member("type", QS(<<"GAME_PREVIEW">>)),
           Member("teams", Arr(<< QS(<<"l","a","k","e","r","s">>),
                                  QS(<<"B","O","S">>) >>)),
           Member("players", Arr(<< QS(LEBRON) >>)) >>),
    UNRESOLVED_OPPONENT_TEXT,
    EXPLICIT_OPPONENT_TEXT,
    UNTYPED_PLAYER_TEXT,
    UNKNOWN_TYPE_TEXT,
    BARE_PROP_CHECK_TEXT,
    BARE_PARLAY_TEXT,
    EXPLICIT_PICKS_TEXT }

\* JSON that is no object, and objects whose fields are null or of another type
MisshapenTexts ==
  { <<"[", "]">>,
    <<"null">>,
    <<"7">>,
    Obj(<< Member("type", <<"null">>) >>),
    Obj(<< Member("type", QS(<<"FIND_PICKS">>)), Member("players", <<"null">>) >>),
    Obj(<< Member("type", QS(<<"FIND_PICKS">>)), Member("players", <<"7">>) >>),
    Obj(<< Member("opponent", <<"7">>) >>),
    Obj(<< Member("type", QS(<<"GAME_PREVIEW">>)), Member("teams", <<"null">>) >>),
    Obj(<< Member("type", QS(<<"PARLAY">>)), Member("props", Arr(<< QS(<<"x">>) >>)) >>) }

IntentOutputs == NotJsonTexts \cup IntentObjectTexts \cup MisshapenTexts

(***************************************************************************)
(* answer_betting_question, step by step                                   *)
(***************************************************************************)
\* the awaitables of a gather, started
Started(issue, st, n) ==
  [j \in DOMAIN issue |-> [issue[j] EXCEPT !.stage = st, !.player = n]]

\* the function goes on to the gather, or to the formatting call, of a step
Enter(step) ==
  /\ planPc' = IF step.stage = "format" THEN "format" ELSE "gather"
  /\ stage' = step.stage
  /\ player_idx' = step.player
  /\ subs' = subs \o Started(step.issue, step.stage, step.player)
  /\ collected' = step.collected
  /\ opp_set' = step.opp_set

\* lines 310-498 up to the first gather: the parsing call, the intent, its
\* fields, the opponent and the branch.  intent.get raises AttributeError
\* when the decoded value is no dict.
AnswerBetting ==
  /\ planPc = "parse"
  /\ \E o \in chat_completion(IntentOutputs) :
       LET parsed == parse_betting_intent(o.text)
           opp == ResolveOpponent(OpponentRaw(parsed.v), TeamsRaw(parsed.v))
           first == FirstStage(parsed.v, opp.v)
       IN  /\ log' = Append(log, Gen("parse_betting", [question |-> question], o))
           /\ raw' = IF o.out = "ok" THEN Some(o.text) ELSE None
           /\ intent' = IF o.out = "ok" /\ ~parsed.raised THEN Some(parsed.v) ELSE None
           /\ IF o.out = "fail" \/ parsed.raised \/ parsed.v.t # "object" THEN
                /\ planPc' = "raised"
                /\ UNCHANGED <<opponent_abbr, collected, opp_set, stage, player_idx, subs>>
              ELSE IF opp.raised \/ first.raised THEN
                /\ planPc' = "raised"
                /\ UNCHANGED <<opponent_abbr, collected, opp_set, stage, player_idx, subs>>
              ELSE
                /\ opponent_abbr' = opp.v
                /\ Enter(first)
  /\ UNCHANGED <<askVars, routeVars, statsVars, newsVars, betVars, scoresVars, checkVars, rankVars, previewVars>>
  /\ UNCHANGED planRet

\* one awaitable of the gather settles
SubQuerySettles ==
  /\ planPc = "gather"
  /\ \E j \in DOMAIN subs : \E out \in SubOutcomes(subs[j]) :
       /\ subs[j].out = "pending"
       /\ subs' = [subs EXCEPT ![j] = [@ EXCEPT !.out = out,
                                                !.rows = SubResult(subs[j], out).rows]]
       /\ planPc' = IF SubResult(subs[j], out).raised THEN "raised" ELSE planPc
  /\ UNCHANGED <<requestVars, scoresVars, checkVars, rankVars, previewVars>>
  /\ UNCHANGED <<raw, intent, opponent_abbr, collected, opp_set, stage, player_idx, planRet>>

\* await asyncio.gather(...): every awaitable has settled
GatherFirstCompleted == \E j \in DOMAIN subs : subs[j].out # "pending"
GatherAwaited == \A j \in DOMAIN subs : subs[j].out # "pending"

\* the gather returns and the function runs on to its next await
GatherReturns ==
  /\ planPc = "gather"
  /\ GatherAwaited
  /\ LET in_gather(s) == s.stage = stage /\ s.player = player_idx
         next == Continue(stage, player_idx, intent.v, opponent_abbr, collected, opp_set,
                          SelectSeq(subs, in_gather))
     IN  IF next.raised THEN
           /\ planPc' = "raised"
           /\ UNCHANGED <<collected, opp_set, stage, player_idx, subs>>
         ELSE Enter(next)
  /\ UNCHANGED <<requestVars, scoresVars, checkVars, rankVars, previewVars>>
  /\ UNCHANGED <<raw, intent, opponent_abbr, planRet>>

\* lines 500-517: the formatting call and the result (route_question, the
\* only caller, passes no news_context)
FormatBetting ==
  /\ planPc = "format"
  /\ \E o \in chat_completion(BettingAnswers) :
       /\ log' = Append(log, Gen("format_betting",
                   [question |-> question, data |-> collected], o))
       /\ IF o.out = "fail" THEN
            /\ planPc' = "raised"
            /\ UNCHANGED planRet
          ELSE
            /\ planPc' = "returned"
            /\ planRet' = Some([answer |-> o.text, intent |-> intent.v])
  /\ UNCHANGED <<askVars, routeVars, statsVars, newsVars, betVars, scoresVars, checkVars, rankVars, previewVars>>
  /\ UNCHANGED <<raw, intent, opponent_abbr, collected, opp_set, stage, player_idx, subs>>

NextBetting ==
  \/ AnswerBetting
  \/ SubQuerySettles
  \/ GatherReturns
  \/ FormatBetting

InitBetting ==
  /\ RequestInit("idle") /\ ScoresInit /\ PreviewInit("idle") /\ PlanInit("parse")
  /\ CheckIdle /\ RankIdle

SpecBetting == InitBetting /\ [][NextBetting]_vars

(***************************************************************************)
(* Properties of answer_betting_question                                   *)
(***************************************************************************)
\* json.loads raises JSONDecodeError on the text left after the fence is removed
InvalidJson(text) == ~json_loads(StripFence(text)).ok

\* the formatting call was made and raised
BettingFormatFailed ==
  /\ log # <<>>
  /\ log[Len(log)].what = "format_betting"
  /\ log[Len(log)].out = "fail"

\* C13: when the intent parser's output is not valid JSON, parsing does not
\* raise: the intent is the default one (FIND_PICKS, no players, props or
\* teams, no opponent, no location), no opponent is resolved, the pipeline
\* runs the league-wide scan (its first gather starts the high-hit-rate scan
\* and nothing of a player, parlay or team branch is ever started), and the
\* result carries the answer of the formatting call with the default intent.
\* Only a failure of the formatting call itself makes the function raise.
C13_InvalidJsonDefaultIntent ==
  (raw # None /\ InvalidJson(raw.v)) =>
    /\ intent = Some(DEFAULT_INTENT)
    /\ opponent_abbr = None
    /\ subs # <<>>
    /\ subs[1].key = <<"high_hit_rate_props">>
    /\ \A j \in DOMAIN subs : subs[j].stage \in {"scan", "scan_teams", "defense"}
    /\ planPc \in {"gather", "format", "returned", "raised"}
    /\ planPc = "raised" => BettingFormatFailed
    /\ planPc = "returned" =>
         planRet = Some([answer |-> log[Len(log)].text, intent |-> DEFAULT_INTENT])

\* an invalid JSON output was parsed and the function returned its answer
C13_Witness ==
  /\ raw # None
  /\ InvalidJson(raw.v)
  /\ planPc = "returned"
  /\ planRet # None
  /\ planRet.v.intent = DEFAULT_INTENT

\* the BettingIntent shape the parsing prompt asks for: an object with one of
\* the four types, players and teams lists of strings, props a list of objects
INTENT_TYPES == {<<"PROP_CHECK">>, <<"FIND_PICKS">>, <<"PARLAY">>, <<"GAME_PREVIEW">>}
HasField(i, key) == \E n \in DOMAIN i.a : i.a[n].k = key
IsListOf(j, t) == j.t = "array" /\ \A n \in DOMAIN j.a : j.a[n].t = t
BettingIntentShape(v) ==
  /\ v.t = "object"
  /\ HasField(v, <<"type">>)
  /\ IntentType(v).t = "string"
  /\ IntentType(v).s \in INTENT_TYPES
  /\ HasField(v, <<"players">>) /\ IsListOf(Players(v), "string")
  /\ HasField(v, <<"props">>) /\ IsListOf(Props(v), "object")
  /\ HasField(v, <<"teams">>) /\ IsListOf(TeamsRaw(v), "string")

\* the parser's output is malformed: no JSON, or JSON of another shape
Malformed(text) ==
  LET r == json_loads(StripFence(text))
  IN  ~r.ok \/ ~BettingIntentShape(r.v)

\* C14: every parser output that has not the BettingIntent shape degrades to
\* the default intent: the intent is a dict whose type reads FIND_PICKS and
\* whose players, props and teams read empty, with no opponent, and nothing
\* before the formatting call raises.
C14_MalformedDegradesToDefault ==
  (raw # None /\ Malformed(raw.v)) =>
    /\ planPc = "raised" => BettingFormatFailed
    /\ intent # None
    /\ intent.v.t = "object"
    /\ IntentType(intent.v) = JString(<<"FIND_PICKS">>)
    /\ Players(intent.v) = JArray(<<>>)
    /\ Props(intent.v) = JArray(<<>>)
    /\ TeamsRaw(intent.v) = JArray(<<>>)
    /\ OpponentRaw(intent.v) = JNull

\* the sub-queries whose result is filed under the key of the queries dict
\* (lines 344-346, 397-399, 467-469, 491-493, 498) or under its own name (423)
FiledUnderKey(s) ==
  \/ s.stage \in {"prop_check", "player", "parlay", "teams", "fallback"}
  \/ s.template = "find_picks"

\* every gather of the request has returned
GathersReturned == planPc \in {"format", "returned"} \/ BettingFormatFailed

SubQueryFailed(s) == s.template # "schedule" /\ s.out \in {"error", "timeout"}

\* what is filed for the sub-queries once the gathers have returned: a keyed
\* sub-query under its key; a defense query of the FIND_PICKS branches under
\* its opponent in opponent_defense, unless its result is empty
SubQueriesFiled ==
  GathersReturned =>
    \A j \in DOMAIN subs :
      /\ FiledUnderKey(subs[j]) =>
           /\ subs[j].key \in DOMAIN collected
           /\ collected[subs[j].key] = subs[j].rows
      /\ subs[j].stage = "defense" =>
           /\ <<"opponent_defense">> \in DOMAIN collected
           /\ subs[j].params[1] \in DOMAIN collected[<<"opponent_defense">>]
                <=> subs[j].rows # <<>>
           /\ subs[j].rows # <<>> =>
                collected[<<"opponent_defense">>][subs[j].params[1]] = subs[j].rows

\* a settled sub-query holds the empty list if it failed, its own rows if not
SubQueriesResolved ==
  \A j \in DOMAIN subs :
    /\ SubQueryFailed(subs[j]) => subs[j].rows = <<>>
    /\ (subs[j].template # "schedule" /\ subs[j].out = "ok") =>
         subs[j].rows = BettingRows(subs[j])

\* a sub-query that settles leaves the function and its siblings as they are
SettlesInIsolation ==
  \A j \in DOMAIN subs :
    (subs[j].out = "pending" /\ subs'[j].out # "pending") =>
      /\ planPc' = planPc
      /\ \A h \in DOMAIN subs : h # j => subs'[h] = subs[h]

\* C15: a sub-query of answer_betting_question that fails (error or timeout;
\* a rejected statement takes the same return) resolves to the empty list,
\* and that list is what is filed under its key; its settling neither makes
\* the function raise nor touches a sibling (pending siblings stay pending and
\* settle by themselves), and every sibling key holds the sibling's own rows.
C15_BettingSubqueryIsolated ==
  /\ [](SubQueriesResolved /\ SubQueriesFiled)
  /\ [][SettlesInIsolation]_vars

\* the function returned after one sub-query of a gather failed and a sibling
\* of the same gather succeeded, each filed under its own key
C15_Witness ==
  /\ planPc = "returned"
  /\ \E j, h \in DOMAIN subs :
       /\ subs[j].stage = subs[h].stage
       /\ subs[j].player = subs[h].player
       /\ FiledUnderKey(subs[j]) /\ FiledUnderKey(subs[h])
       /\ SubQueryFailed(subs[j])
       /\ collected[subs[j].key] = <<>>
       /\ subs[h].template # "schedule" /\ subs[h].out = "ok"
       /\ collected[subs[h].key] = BettingRows(subs[h])
       /\ BettingRows(subs[h]) # <<>>

(***************************************************************************)
(* The two fan-out pipelines side by side                                  *)
(***************************************************************************)
\* a request is either a game preview or a betting question
InitFanout == InitPreview \/ InitBetting
NextFanout == NextPreview \/ NextBetting
SpecFanout == InitFanout /\ [][NextFanout]_vars

\* the formatting call of a pipeline has been issued
FormatIssued(what) == \E n \in DOMAIN log : log[n].what = what

\* C16: the formatting call of generate_game_preview and of
\* answer_betting_question is issued only after every sub-query issued for
\* the request has settled: from the moment the function stands at the call,
\* none of the 14 preview queries (nor the news search) and none of the
\* betting sub-queries started so far is pending.
C16_FormatAfterAllSettled ==
  /\ (previewPc = "format" \/ FormatIssued("format_preview")) =>
       (pending = {} /\ safePc # "running")
  /\ (planPc = "format" \/ FormatIssued("format_betting")) =>
       (subs # <<>> => \A j \in DOMAIN subs : subs[j].out # "pending")

\* the preview was formatted after its 14 sub-queries settled, some of them
\* degraded to the empty list
C16_Witness ==
  /\ FormatIssued("format_preview")
  /\ pending = {}
  /\ PLAN_KEYS \subseteq DOMAIN collected_data
  /\ FailedKeys # {}
  /\ FailedKeys # PLAN_KEYS

(***************************************************************************)
(* The safety check on its own                                             *)
(***************************************************************************)
\* the longest statement is made of MaxPieces pieces
MaxPieces == 3

\* pieces of statements: keywords in several letter cases, a keyword inside a
\* longer identifier, and the characters that may stand next to a keyword
StatementPieces ==
  { <<"D","E","L","E","T","E">>,
    <<"d","e","L","e","t","e">>,
    <<"d","r","o","p">>,
    <<"c","r","e","a","t","e","d","_","a","t">>,
    <<" ">>, <<"_">>, <<"1">>, <<"s">>, <<"(">>, <<EAcute>> }

RECURSIVE Concatenations(_)
Concatenations(n) ==
  IF n = 0 THEN { <<>> }
  ELSE Concatenations(n - 1)
         \cup { s \o p : s \in Concatenations(n - 1), p \in StatementPieces }

\* two whole statements
DELETE_FROM_PLAYERS ==
  <<"D","E","L","E","T","E"," ","F","R","O","M"," ","p","l","a","y","e","r","s">>
SELECT_CREATED_AT ==
  <<"S","E","L","E","C","T"," ","c","r","e","a","t","e","d","_","a","t",
    " ","F","R","O","M"," ","p","l","a","y","e","r","s">>

Statements == Concatenations(MaxPieces) \cup {DELETE_FROM_PLAYERS, SELECT_CREATED_AT}

InitCheck ==
  /\ RequestInit("idle") /\ ScoresInit /\ PreviewInit("idle") /\ PlanInit("idle")
  /\ RankIdle
  /\ statement \in Statements
  /\ rejected = None
  /\ ParlayIdle /\ PoolIdle

\* if _UNSAFE_PATTERN.search(sql)
SafetyCheck ==
  /\ rejected = None
  /\ rejected' = Some(UNSAFE_PATTERN_search(statement))
  /\ UNCHANGED <<requestVars, scoresVars, previewVars, planVars, rankVars, statement>>
  /\ UNCHANGED <<parlay_legs, hit_pct, correlation_warnings, in_use, reqs>>

NextCheck == SafetyCheck
SpecCheck == InitCheck /\ [][NextCheck]_vars

\* the words of a text: its longest runs of letters, digits and underscores
WholeWords(s) ==
  LET starts == { i \in 1..Len(s) : IsWordChar(s[i]) /\ (i = 1 \/ ~IsWordChar(s[i - 1])) }
      end(i) == Min({ j \in i..Len(s) : j = Len(s) \/ ~IsWordChar(s[j + 1]) })
  IN  { SubSeq(s, i, end(i)) : i \in starts }

\* one of the eleven keywords, written in any letter case
IsKeywordAnyCase(w) == \E k \in UNSAFE_KEYWORDS : lower(w) = lower(k)

\* C17: the safety check rejects a statement exactly when one of its words is
\* one of the eleven keywords in some letter case; it rejects DELETE FROM
\* players and accepts a SELECT whose only occurrence of a keyword is inside
\* the identifier created_at.
C17_RejectsIffKeywordWord ==
  rejected # None =>
    /\ rejected.v <=> (\E w \in WholeWords(statement) : IsKeywordAnyCase(w))
    /\ statement = DELETE_FROM_PLAYERS => rejected.v
    /\ statement = SELECT_CREATED_AT => ~rejected.v

\* the check accepted a statement that holds a keyword inside a longer word
C17_Witness ==
  /\ rejected = Some(FALSE)
  /\ statement = SELECT_CREATED_AT
  /\ \E i \in 1..Len(statement) : \E j \in i..Len(statement) :
       MatchesKeyword(SubSeq(statement, i, j))

(***************************************************************************)
(* The chunk search on its own: the ORDER BY of news_service.py:24-27       *)
(***************************************************************************)
\* raw distances 0..MaxDistance (in units of the smallest distance told
\* apart), times 0..MaxTime (in seconds)
MaxDistance == 2
MaxTime == 3

SECONDS_PER_DAY == 86400
\* 0.02, as a number of hundredths
RECENCY_HUNDREDTHS == 2

\* a row of news_chunks joined with its article: published_at may be NULL,
\* and an article is ingested no earlier than it was published
Chunks ==
  { [distance |-> d, published_at |-> Some(p), ingested_at |-> i] :
      d \in 0..MaxDistance, p \in 0..MaxTime, i \in 0..MaxTime }
  \cup { [distance |-> d, published_at |-> None, ingested_at |-> i] :
           d \in 0..MaxDistance, i \in 0..MaxTime }

InitRank ==
  /\ RequestInit("idle") /\ ScoresInit /\ PreviewInit("idle") /\ PlanInit("idle")
  /\ CheckIdle
  /\ db_now \in 0..MaxTime
  /\ candidates \in [1..2 -> {c \in Chunks : c.published_at.none \/ c.published_at.v <= c.ingested_at}]
  /\ ranked = None

COALESCE(a, b) == IF a.none THEN b ELSE a.v
GREATEST(a, b) == IF a >= b THEN a ELSE b

\* GREATEST(0, EXTRACT(EPOCH FROM (NOW() - COALESCE(published_at, ingested_at))))
RecencyIgnored(c, t) == t - t
RecencySeconds(c, t) == GREATEST(0, t - COALESCE(c.published_at, c.ingested_at))

\* distance * (1.0 + seconds / 86400.0 * 0.02), times 86400 * 100 to stay in
\* the integers (exact arithmetic)
WeightedDistance(c, t) ==
  c.distance * (SECONDS_PER_DAY * 100 + RecencySeconds(c, t) * RECENCY_HUNDREDTHS)

\* the orders ORDER BY may return the rows in: ascending, ties in any order
Orderings(rows, t) ==
  { o \in [1..Len(rows) -> 1..Len(rows)] :
      /\ \A a, b \in 1..Len(rows) : a # b => o[a] # o[b]
      /\ \A a, b \in 1..Len(rows) :
           a < b => WeightedDistance(rows[o[a]], t) <= WeightedDistance(rows[o[b]], t) }

\* conn.fetch of the chunk search: the first NEWS_LIMIT rows of an ordering
ChunkSearch ==
  /\ ranked = None
  /\ \E o \in Orderings(candidates, db_now) :
       ranked' = Some(SubSeq(o, 1, IF Len(o) < NEWS_LIMIT THEN Len(o) ELSE NEWS_LIMIT))
  /\ UNCHANGED <<requestVars, scoresVars, previewVars, planVars, checkVars,
                 db_now, candidates>>

NextRank == ChunkSearch
SpecRank == InitRank /\ [][NextRank]_vars

\* chunk a and chunk b have the same raw distance, both have a publish time,
\* and a was published after b
MoreRecent(a, b) ==
  /\ candidates[a].distance = candidates[b].distance
  /\ ~candidates[a].published_at.none
  /\ ~candidates[b].published_at.none
  /\ candidates[a].published_at.v > candidates[b].published_at.v

\* row a comes before row b in the result
RankedBefore(a, b) ==
  \E m, n \in DOMAIN ranked.v : m < n /\ ranked.v[m] = a /\ ranked.v[n] = b

\* C18 as stated: of two chunks with the same raw distance the one published
\* later has the strictly smaller weighted distance and comes first, whatever
\* the distance and the publish times.
C18_MoreRecentRanksHigher ==
  ranked # None =>
    \A a, b \in DOMAIN candidates :
      MoreRecent(a, b) =>
        /\ WeightedDistance(candidates[a], db_now) < WeightedDistance(candidates[b], db_now)
        /\ RankedBefore(a, b)

\* C18, amended: of two chunks with the same raw distance the one published
\* later has the strictly smaller weighted distance and comes first, if the
\* distance is not zero and the older chunk was published before NOW(); if
\* the distance is zero, or neither publish time lies in the past, the two
\* weighted distances are equal (and either chunk may come first).
C18_MoreRecentRanksHigherInPast ==
  ranked # None =>
    \A a, b \in DOMAIN candidates :
      MoreRecent(a, b) =>
        IF candidates[a].distance > 0 /\ candidates[b].published_at.v < db_now
          THEN /\ WeightedDistance(candidates[a], db_now)
                    < WeightedDistance(candidates[b], db_now)
               /\ RankedBefore(a, b)
          ELSE WeightedDistance(candidates[a], db_now)
                 = WeightedDistance(candidates[b], db_now)

\* two chunks at the same distance, the second one published later and ranked
\* first
C18_Witness ==
  /\ ranked = Some(<<2, 1>>)
  /\ MoreRecent(2, 1)
  /\ candidates[2].distance > 0
  /\ candidates[1].published_at.v < db_now

(***************************************************************************)
(* Properties of answer_news_question                                      *)
(***************************************************************************)
\* the chunk search has returned, without an error
ChunkSearchReturned ==
  \E n \in DOMAIN log : log[n].port = "db" /\ log[n].what = "news" /\ log[n].out = "ok"

\* C19: when the chunk search returns no rows, answer_news_question returns
\* the fixed answer about having no recent news articles with sources = [];
\* it does not raise and makes no summarization call to the generation port.
C19_NoRowsFixedAnswer ==
  (ChunkSearchReturned /\ newsRows = <<>>) =>
    /\ newsPc = "returned"
    /\ newsRet = [answer |-> NO_NEWS_ANSWER, sources |-> <<>>]
    /\ \A n \in DOMAIN log : log[n].what # "summarize"

\* the chunk search found nothing and the fixed answer was returned
C19_Witness ==
  /\ ChunkSearchReturned
  /\ newsRows = <<>>
  /\ newsPc = "returned"
  /\ newsRet.answer = NO_NEWS_ANSWER
  /\ newsRet.sources = <<>>

(***************************************************************************)
(* Staleness of the scores cache                                           *)
(***************************************************************************)
\* the entry a call found at its start was missing or 120 s old or older
StaleAtStart(call) ==
  call.seen.none \/ call.start - call.seen.v >= CACHE_TTL

\* C20: get_scores never returns the cached payload of an entry that is 120 s
\* old or older: a call that found no entry, or an entry of that age, takes
\* the fetch path, and until its fetch has been attempted it has returned
\* nothing; it returns only with the fetched (or degraded) payload stored.
\* This holds for every interleaving of the callers.
C20_NoStaleServe ==
  \A a \in DOMAIN calls :
    StaleAtStart(calls[a]) =>
      /\ calls[a].fetched
      /\ ~calls[a].done =>
           /\ callPc[calls[a].caller] \in {"today", "upcoming"}
           /\ callResult[calls[a].caller] = None
      /\ calls[a].done => ~cache.none

\* while one caller is still fetching, a second caller finds the entry
\* exactly 120 s old, fetches too and returns
C20_Witness ==
  \E a \in DOMAIN calls :
    /\ calls[a].overlaps
    /\ ~calls[a].seen.none
    /\ calls[a].start - calls[a].seen.v = CACHE_TTL
    /\ calls[a].fetched
    /\ calls[a].done

(***************************************************************************)
(* One caller's refreshes, with the requests to the NBA API followed       *)
(***************************************************************************)
InitRefresh ==
  /\ RequestInit("idle") /\ ScoresInitFollowing(Some(<<>>))
  /\ PreviewInit("idle") /\ PlanInit("idle")
  /\ CheckIdle /\ RankIdle

NextRefresh ==
  \/ GetScores(1)
  \/ FetchToday(1)
  \/ FetchUpcoming(1)
  \/ Tick

SpecRefresh == InitRefresh /\ [][NextRefresh]_vars

\* the call of caller 1 has returned after a refresh
Refreshed ==
  /\ cur[1] # 0
  /\ calls[cur[1]].fetched
  /\ calls[cur[1]].done

\* a request of the refresh raised
SomeFetchRaised == \E n \in DOMAIN fetches.v : fetches.v[n].out = "raise"

\* C21: get_scores does not raise when the upstream fails, and whenever the
\* fetch of today's scoreboard or a probe of an upcoming day raised, the call
\* returns the payload {games: [], label: "Today"}.
C21_FetchFailureGivesEmptyPayload ==
  /\ callPc[1] \in {"idle", "today", "upcoming"}
  /\ (Refreshed /\ SomeFetchRaised) => callResult[1] = Some(EMPTY_PAYLOAD)

\* the label of day+2: target.strftime("%a, %b %-d")
WEEKDAY_LABEL == "%a, %b %-d"

\* what the n-th request of the refresh was and what it found
FetchWas(n, what, out) ==
  /\ n \in DOMAIN fetches.v
  /\ fetches.v[n] = [what |-> what, out |-> out]

\* C22: on a cache miss get_scores asks for today first; with a game today it
\* returns today's games labeled "Today" and probes nothing; with no game
\* today it probes day+1 and, unless day+1 has games, day+2, in that order,
\* and returns the first day that has games (day+1 labeled "Tomorrow", day+2
\* labeled by its weekday); a probe that raises is skipped like an empty day;
\* when neither day has games it returns the empty payload labeled "Today".
C22_ProbesInOrder ==
  Refreshed =>
    LET result == callResult[1].v
        n == Len(fetches.v)
    IN  /\ n >= 1 /\ fetches.v[1].what = "today"
        /\ FetchWas(1, "today", "games") =>
             /\ n = 1
             /\ result.label = "Today" /\ result.games # <<>>
        /\ (FetchWas(1, "today", "empty") /\ ~FetchWas(2, "upcoming", "raise")) =>
             /\ n \in {2, 3}
             /\ fetches.v[2].what = "day+1"
             /\ FetchWas(2, "day+1", "games") =>
                  /\ n = 2
                  /\ result.label = "Tomorrow" /\ result.games # <<>>
             /\ ~FetchWas(2, "day+1", "games") =>
                  /\ n = 3
                  /\ fetches.v[3].what = "day+2"
                  /\ FetchWas(3, "day+2", "games") =>
                       result.label = WEEKDAY_LABEL /\ result.games # <<>>
                  /\ ~FetchWas(3, "day+2", "games") => result = EMPTY_PAYLOAD

\* no game today, the probe of day+1 raised, and the games of day+2 were
\* returned
C22_Witness ==
  /\ Refreshed
  /\ FetchWas(1, "today", "empty")
  /\ FetchWas(2, "day+1", "raise")
  /\ FetchWas(3, "day+2", "games")
  /\ callResult[1].v.label = WEEKDAY_LABEL

(***************************************************************************)
(* MIXED and OFF_TOPIC                                                     *)
(***************************************************************************)
\* positions in the log of the port calls of answer_news_question
NewsCalls ==
  {i \in DOMAIN log : \/ log[i].port = "embed"
                      \/ log[i].port = "db" /\ log[i].what = "news"
                      \/ log[i].port = "gen" /\ log[i].what = "summarize"}

\* MIXED: the news pipeline has returned before the SQL-generation call, whose
\* prompt carries ctx, and the answer returned is the two sections under
\* their labels with the SQL of the stats result and the sources of the news
MixedNewsThenStats(ctx) ==
  category = MIXED =>
    /\ \A i \in GenCalls("sql") :
         /\ newsPc = "returned"
         /\ \A j \in NewsCalls : j < i
         /\ log[i].arg.news_context = ctx
    /\ routePc = "returned" =>
         /\ routeRet.category = "mixed"
         /\ routeRet.answer = <<"**Stats perspective:**\n">> \o statsRet.answer
                                \o <<"\n\n**News perspective:**\n">> \o newsRet.answer
         /\ routeRet.sql = statsRet.sql
         /\ routeRet.sources = newsRet.sources

\* C23 (as stated): for a MIXED question the news pipeline runs to completion
\* before the SQL-generation call of the stats pipeline is issued, the news
\* answer text is part of the prompt of that call, and the answer returned is
\* the stats section followed by the news section under the fixed labels, with
\* the stats SQL and the news sources.
C23_NewsAnswerAlwaysInPrompt == MixedNewsThenStats(Some(newsRet.answer))

\* C23 (amended): as above, but the news answer is part of the prompt only
\* when it is not the empty text; an empty news answer leaves the prompt
\* without a context section.
C23_NewsThenStatsWithContext ==
  MixedNewsThenStats(IF newsRet.answer = <<>> THEN None ELSE Some(newsRet.answer))

\* a MIXED question answered with a news summary in the SQL prompt
C23_Witness ==
  /\ category = MIXED
  /\ routePc = "returned"
  /\ \E i \in GenCalls("sql") : log[i].arg.news_context = Some(<<"news summary">>)
  /\ routeRet.sources # <<>>

\* position in the log of the classification call
ClassifyAt == CHOOSE i \in GenCalls("classify") : TRUE

\* C24: for a question classified OFF_TOPIC route_question returns the fixed
\* refusal with category "off_topic"; no pipeline is started, and the
\* classification call is the last port call of the request: no query, no
\* embedding and no further generation call follows it.
C24_OffTopicNoDownstreamCalls ==
  (category = OFF_TOPIC /\ routePc # "dispatch") =>
    /\ routePc = "returned"
    /\ routeRet = [category |-> "off_topic", original_question |-> rq,
                   answer |-> OFF_TOPIC_ANSWER]
    /\ statsPc = "idle" /\ newsPc = "idle" /\ betPc = "idle"
    /\ GenCalls("classify") # {}
    /\ \A i \in DOMAIN log : i <= ClassifyAt
    /\ \A i \in DOMAIN log : log[i].port = "gen"

\* an OFF_TOPIC question has been refused and the response handed out
C24_Witness ==
  /\ category = OFF_TOPIC
  /\ routePc = "returned"
  /\ routeRet.answer = OFF_TOPIC_ANSWER
  /\ askPc = "done"

(***************************************************************************)
(* Keys of the evidence bundle                                             *)
(***************************************************************************)
\* C25: within one request, two sub-queries that differ in their template or
\* in their parameters are never filed under the same key of the evidence
\* bundle (the per-player keys of FIND_PICKS, the trend_, hits_ and defense_
\* keys of GAME_PREVIEW, the leg keys of PARLAY, the fixed slots).
C25_DistinctSubqueriesDistinctKeys ==
  \A j \in DOMAIN subs : \A k \in DOMAIN subs :
    subs[j].key = subs[k].key =>
      subs[j].template = subs[k].template /\ subs[j].params = subs[k].params

(***************************************************************************)
(* Database executions                                                     *)
(***************************************************************************)
\* positions in the log of the executions on the query port
DbCalls == {i \in DOMAIN log : log[i].port = "db"}

\* C26: every database execution of a pipeline runs inside a read-only
\* transaction and under an explicit timeout of 15 seconds.
C26_EveryExecutionReadOnlyTimed ==
  \A i \in DbCalls :
    /\ log[i].arg.readonly
    /\ log[i].arg.timeout = Some(QUERY_TIMEOUT)

(***************************************************************************)
(* _detect_parlay_correlations as a function of the legs                   *)
(***************************************************************************)
\* the longest parlay
MaxLegs == 3

\* a leg {player, stat, direction}; direction is left out when dir is empty
Leg(player, stat, dir) ==
  JObject(<< [k |-> <<"player">>, v |-> JString(<<player>>)],
             [k |-> <<"stat">>, v |-> JString(<<stat>>)] >>
          \o (IF dir = "" THEN <<>> ELSE << [k |-> <<"direction">>, v |-> JString(<<dir>>)] >>))
Legs == { Leg(p, s, d) : p \in {"A", "B"}, s \in {"pts", "ast", "reb"},
                         d \in {"over", "under", ""} }
LegLists == UNION { [1..n -> Legs] : n \in 0..MaxLegs }
\* hit percentages the hit-rate queries may have found for the legs
HitPercents == {70, 90}

InitParlay ==
  /\ RequestInit("idle") /\ ScoresInit /\ PreviewInit("idle") /\ PlanInit("idle")
  /\ RankIdle
  /\ statement = <<>> /\ rejected = None
  /\ parlay_legs \in LegLists
  /\ hit_pct \in HitPercents
  /\ correlation_warnings = None
  /\ PoolIdle

\* collected_data["correlation_warnings"] = _detect_parlay_correlations(props)
DetectCorrelations ==
  /\ correlation_warnings = None
  /\ correlation_warnings' = Some(detect_parlay_correlations(JArray(parlay_legs)))
  /\ UNCHANGED <<requestVars, scoresVars, previewVars, planVars, rankVars>>
  /\ UNCHANGED <<statement, rejected, parlay_legs, hit_pct, in_use, reqs>>

NextParlay == DetectCorrelations
SpecParlay == InitParlay /\ [][NextParlay]_vars

\* the fields of the n-th leg
LegPlayer(n) == py_get(parlay_legs[n], <<"player">>, JString(<<>>)).v.s
LegStat(n) == py_get(parlay_legs[n], <<"stat">>, JNull).v.s
LegOver(n) == py_get(parlay_legs[n], <<"direction">>, JString(<<"over">>)).v.s = <<"over">>
HasLeg(player, stat) ==
  \E n \in DOMAIN parlay_legs : LegPlayer(n) = player /\ LegStat(n) = <<stat>>
\* the warnings of a kind
Warnings(kind) ==
  LET w == correlation_warnings.v.v
  IN  {j \in DOMAIN w : w[j].kind = kind}

\* the rule-based warnings: none for fewer than 2 legs; one same-player
\* warning for a player exactly when the player has a pts and an ast leg; the
\* zero-sum/blowout warning exactly when 2 or more legs are pts legs over;
\* the combined-probability warning exactly when there are 3 or more legs
ParlayRuleWarnings ==
  ~correlation_warnings.none =>
    LET w == correlation_warnings.v.v
        n == Len(parlay_legs)
    IN  /\ ~correlation_warnings.v.raised
        /\ n < 2 => w = <<>>
        /\ n >= 2 =>
             /\ \A p \in {<<"A">>, <<"B">>} :
                  Cardinality({j \in Warnings("same_player") : w[j].name = p})
                    = IF HasLeg(p, "pts") /\ HasLeg(p, "ast") THEN 1 ELSE 0
             /\ Cardinality(Warnings("multiple_over_pts"))
                  = IF Cardinality({j \in 1..n : LegStat(j) = <<"pts">> /\ LegOver(j)}) >= 2
                      THEN 1 ELSE 0
             /\ Cardinality(Warnings("legs")) = IF n >= 3 THEN 1 ELSE 0

\* C27: _detect_parlay_correlations emits no warning for fewer than 2 legs, a
\* positive-correlation warning for a player exactly when the player has both
\* a pts and an ast leg, the zero-sum/blowout warning exactly when at least 2
\* legs are pts legs over, and for 3 or more legs reports the combined hit
\* probability: the product of the legs' individual hit probabilities.
C27_CombinedIsProductOfLegs ==
  /\ ParlayRuleWarnings
  /\ ~correlation_warnings.none =>
       \A j \in Warnings("legs") :
         correlation_warnings.v.v[j].pct
           = RoundDiv(Power(hit_pct, Len(parlay_legs)) * 100,
                      Power(100, Len(parlay_legs)))

(***************************************************************************)
(* The result of a successful stats execution                              *)
(***************************************************************************)
\* answer_stats_question returned after an execution that succeeded
StatsSucceeded == statsPc = "returned" /\ ~statsRet.results.none

\* C28: after a successful execution answer_stats_question returns at most
\* the first 25 rows of the result, in the order the database returned them,
\* and the sql it returns is the statement of that execution: the last
\* execution of the request, the only one that succeeded, which ran the
\* corrected statement when there was a correction and the first one otherwise.
C28_FirstRowsAndExecutedSql ==
  StatsSucceeded =>
    LET rows == statsRet.results.v
        last == Max(StatsExecs)
    IN  /\ Len(rows) = Min({Len(results.v), 25})
        /\ \A n \in DOMAIN rows : rows[n] = results.v[n]
        /\ StatsExecs # {}
        /\ \A i \in StatsExecs : log[i].out = "ok" <=> i = last
        /\ statsRet.sql = log[last].text
        /\ \A g \in GenCalls("correct") : g < last /\ statsRet.sql = CleanSql(log[g].text)
        /\ GenCalls("correct") = {} =>
             \A g \in GenCalls("sql") : statsRet.sql = CleanSql(log[g].text)

\* the corrected statement succeeded with more rows than are returned
C28_Witness ==
  /\ StatsSucceeded
  /\ GenCalls("correct") # {}
  /\ Len(results.v) > Len(statsRet.results.v)
  /\ Len(statsRet.results.v) = 25

(***************************************************************************)
(* The provenance records of a news answer                                 *)
(***************************************************************************)
\* C29: a news answer carries at most 5 provenance records: exactly one
\* record {title, url, source} for each chunk the search returned, taken from
\* that chunk, in the order in which the search ranked the chunks.
C29_OneSourcePerChunkInOrder ==
  newsPc = "returned" =>
    LET sources == newsRet.sources
    IN  /\ Len(sources) <= 5
        /\ Len(sources) = Len(newsRows)
        /\ \A n \in DOMAIN sources :
             /\ DOMAIN sources[n] = {"title", "url", "source"}
             /\ sources[n].title = newsRows[n].title
             /\ sources[n].url = newsRows[n].url
             /\ sources[n].source = newsRows[n].source

\* five chunks were summarised; the last record is the one of the fifth chunk
C29_Witness ==
  /\ newsPc = "returned"
  /\ Len(newsRows) = 5
  /\ GenCalls("summarize") # {}
  /\ newsRet.sources[5].url = Chunk(5).url

(***************************************************************************)
(* The cache entry of get_scores                                           *)
(***************************************************************************)
\* the refresh of caller c ends: the entry becomes the time c read on entry
\* paired with the whole payload c returns
CacheWrittenBy(c) ==
  /\ callPc[c] \in {"today", "upcoming"}
  /\ callPc'[c] = "idle"
  /\ cache' = Some([ts |-> callNow[c], data |-> callResult'[c].v])

\* caller c is handed a payload without fetching: it is the payload of the
\* entry as it stands, and the entry stays as it is
ServedFromCache(c) ==
  (callPc[c] = "idle" /\ callPc'[c] = "idle" /\ callResult'[c] # callResult[c]) =>
    /\ ~cache.none
    /\ callResult'[c] = Some(cache.v.data)
    /\ cache' = cache

\* C30: the cache entry is replaced as a whole: every step that changes it is
\* the end of one refresh and writes the pair (time read by that refresh,
\* payload returned by that refresh); no step writes one half, so the entry is
\* always absent or the pair of a single refresh, and a caller served from the
\* cache gets the payload of that pair.
C30_CacheReplacedWholesale ==
  [][ /\ cache' # cache => \E c \in Callers : CacheWrittenBy(c)
      /\ \A c \in Callers : ServedFromCache(c) ]_vars

\* two overlapping refreshes have both ended; the entry is the pair of one
\* of them
C30_Witness ==
  /\ Len(calls) >= 2
  /\ calls[1].fetched /\ calls[1].done
  /\ calls[2].fetched /\ calls[2].done /\ calls[2].overlaps
  /\ callResult[1] # callResult[2]
  /\ ~cache.none
  /\ \E c \in Callers : cache.v = [ts |-> callNow[c], data |-> callResult[c].v]

\* C15 (filing): once the gathers of answer_betting_question have returned,
\* every sub-query that failed holds the empty list, every other one its own
\* rows, and the key of each sub-query holds that sub-query's result.
C15_OwnKeyHoldsOwnResult == SubQueriesResolved /\ SubQueriesFiled

\* the settling of a sub-query on its own: a failed one holds the empty list,
\* and no settling makes the function raise or touches a sibling
SubQuerySettlesAlone == []SubQueriesResolved /\ [][SettlesInIsolation]_vars

(***************************************************************************)
(* Concurrency of the plan of answer_betting_question                      *)
(***************************************************************************)
\* two sub-queries were started by the same gather
IssuedTogether(j, h) ==
  subs[j].stage = subs[h].stage /\ subs[j].player = subs[h].player

\* C31: all sub-queries of the plan of one request are in flight together:
\* no sub-query is issued only after another sub-query of the plan has
\* settled.  A gather is entered when the gather before it has returned, so
\* two sub-queries of different gathers are a sub-query that waited.
C31_PlanIssuedAtOnce ==
  \A j \in DOMAIN subs : \A h \in DOMAIN subs : IssuedTogether(j, h)

(***************************************************************************)
(* The branches of a BETTING request after the response                    *)
(***************************************************************************)
\* a branch of the gather of route_question has not returned or raised yet
BranchRunning(pc) == pc \notin {"idle", "returned", "raised"}

\* C32: once ask has produced the response of a BETTING request, neither the
\* betting branch nor the news branch of that request is still running, so
\* no port call of the request is made after the response.
C32_NoBranchOutlivesResponse ==
  (askPc = "done" /\ category = BETTING) =>
    ~BranchRunning(betPc) /\ ~BranchRunning(newsPc)

(***************************************************************************)
(* The connection pool: pool.acquire() around each query                   *)
(***************************************************************************)
\* asyncpg.create_pool(..., max_size=10)
POOL_MAX == 10
\* the queries of generate_game_preview
PREVIEW_QUERIES == Cardinality(PLAN_KEYS)
\* the queries of the PROP_CHECK plan with an opponent: hit_rate, trend,
\* splits, matchup, opp_defense
PROP_CHECK_QUERIES == 5

PipelineKinds == {"stats", "news", "betting", "preview"}

\* a request at its start: main is the position of the pipeline's own
\* coroutine and held the connections it holds; waiting and holding count the
\* sub-queries of its gather that wait for a connection and that hold one;
\* news is the position of answer_news_question, run by the request as its
\* pipeline (news), next to the pipeline (betting) or inside its gather
\* (preview), and news_held the connections it holds
StartOf(kind) ==
  [kind |-> kind,
   main |-> CASE kind = "stats" -> "generate"
              [] kind = "news" -> "idle"
              [] kind = "betting" -> "parse"
              [] OTHER -> "gather",
   attempt |-> 0,
   held |-> 0,
   waiting |-> IF kind = "preview" THEN PREVIEW_QUERIES ELSE 0,
   holding |-> 0,
   news |-> IF kind = "stats" THEN "idle" ELSE "embed",
   news_held |-> 0]

PoolInit(kinds, n) ==
  /\ RequestInit("idle") /\ ScoresInit /\ PreviewInit("idle") /\ PlanInit("idle")
  /\ RankIdle
  /\ statement = <<>> /\ rejected = None /\ ParlayIdle
  /\ in_use = 0
  /\ reqs \in [1..n -> {StartOf(k) : k \in kinds}]

PoolFrame ==
  /\ UNCHANGED <<requestVars, scoresVars, previewVars, planVars, rankVars>>
  /\ UNCHANGED <<statement, rejected, parlay_legs, hit_pct, correlation_warnings>>

\* async with pool.acquire() as conn: a free connection is handed out
Acquired == in_use < POOL_MAX /\ in_use' = in_use + 1
\* leaving the async with block without the connection going back
ReleasedLeaks == in_use' = in_use
\* leaving the async with block, by its end or by an exception
Released == in_use' = in_use - 1

\* stats Step 1 and Step 2: the generation call returns
ConnStatsGenerate(r) ==
  /\ reqs[r].main = "generate"
  /\ \E o \in {"ok", "reject", "fail"} :
       reqs' = [reqs EXCEPT ![r].main = IF o = "ok" THEN "acquire" ELSE "done"]
  /\ UNCHANGED in_use /\ PoolFrame

\* stats Step 3: pool.acquire() at the start of an iteration of the loop
ConnStatsAcquire(r) ==
  /\ reqs[r].main = "acquire"
  /\ Acquired
  /\ reqs' = [reqs EXCEPT ![r].main = "fetch", ![r].held = @ + 1]
  /\ PoolFrame

\* where the stats loop goes when its fetch has settled
AfterFetchHolding(o, n) ==
  IF o = "error" /\ n = 0 THEN [main |-> "correct", released |-> FALSE]
  ELSE [main |-> IF o = "rows" THEN "format" ELSE "done", released |-> TRUE]
AfterFetch(o, n) ==
  [main |-> CASE o = "rows" -> "format"
              [] o = "timeout" -> "done"
              [] o = "error" /\ n = 0 -> "correct"
              [] OTHER -> "done",
   released |-> TRUE]

\* stats Step 3: the fetch settles; the async with block is left before the
\* except clauses run, so the connection is back before the correction call
ConnStatsSettle(r) ==
  /\ reqs[r].main = "fetch"
  /\ \E o \in {"rows", "timeout", "error"} :
       LET after == AfterFetch(o, reqs[r].attempt)
       IN  /\ reqs' = [reqs EXCEPT ![r].main = after.main,
                                   ![r].held = IF after.released THEN @ - 1 ELSE @]
           /\ IF after.released THEN Released ELSE UNCHANGED in_use
  /\ PoolFrame

\* stats Step 3, attempt 0: the correction call returns
ConnStatsCorrect(r) ==
  /\ reqs[r].main = "correct"
  /\ \E o \in {"ok", "reject", "fail"} :
       reqs' = [reqs EXCEPT ![r].main = IF o = "ok" THEN "acquire" ELSE "done",
                            ![r].attempt = 1]
  /\ UNCHANGED in_use /\ PoolFrame

\* the formatting call of stats, betting or preview returns
ConnFormat(r) ==
  /\ reqs[r].main = "format"
  /\ reqs' = [reqs EXCEPT ![r].main = "done"]
  /\ UNCHANGED in_use /\ PoolFrame

\* betting Step 1: the intent-parsing call returns and the gather is started
ConnBettingParse(r) ==
  /\ reqs[r].main = "parse"
  /\ \E o \in {"ok", "fail"} :
       reqs' = [reqs EXCEPT ![r].main = IF o = "ok" THEN "gather" ELSE "done",
                            ![r].waiting = IF o = "ok" THEN PROP_CHECK_QUERIES ELSE 0]
  /\ UNCHANGED in_use /\ PoolFrame

\* _execute_query: pool.acquire() of one sub-query of the gather
ConnSubAcquire(r) ==
  /\ reqs[r].main = "gather"
  /\ reqs[r].waiting > 0
  /\ Acquired
  /\ reqs' = [reqs EXCEPT ![r].waiting = @ - 1, ![r].holding = @ + 1]
  /\ PoolFrame

\* _execute_query: the fetch of one sub-query settles (rows, error, timeout)
ConnSubSettle(r) ==
  /\ reqs[r].holding > 0
  /\ Released
  /\ reqs' = [reqs EXCEPT ![r].holding = @ - 1]
  /\ PoolFrame

\* the gather returns: every sub-query has settled, and in the game preview
\* the news search too
ConnGatherReturns(r) ==
  /\ reqs[r].main = "gather"
  /\ reqs[r].waiting = 0 /\ reqs[r].holding = 0
  /\ reqs[r].kind = "preview" => reqs[r].news = "done"
  /\ reqs' = [reqs EXCEPT ![r].main = "format"]
  /\ UNCHANGED in_use /\ PoolFrame

\* news Step 1: embed_text returns
ConnNewsEmbed(r) ==
  /\ reqs[r].news = "embed"
  /\ \E o \in {"ok", "fail"} :
       reqs' = [reqs EXCEPT ![r].news = IF o = "ok" THEN "acquire" ELSE "done"]
  /\ UNCHANGED in_use /\ PoolFrame

\* news Step 2: pool.acquire()
ConnNewsAcquire(r) ==
  /\ reqs[r].news = "acquire"
  /\ Acquired
  /\ reqs' = [reqs EXCEPT ![r].news = "fetch", ![r].news_held = @ + 1]
  /\ PoolFrame

\* news Step 2: conn.fetch settles and the async with block is left
ConnNewsSettle(r) ==
  /\ reqs[r].news = "fetch"
  /\ Released
  /\ \E o \in {"rows", "empty", "error"} :
       reqs' = [reqs EXCEPT ![r].news = IF o = "rows" THEN "summarize" ELSE "done",
                            ![r].news_held = @ - 1]
  /\ PoolFrame

\* news Step 4: the summarization call returns
ConnNewsSummarize(r) ==
  /\ reqs[r].news = "summarize"
  /\ reqs' = [reqs EXCEPT ![r].news = "done"]
  /\ UNCHANGED in_use /\ PoolFrame

InitConn == PoolInit(PipelineKinds, 1)
NextConn ==
  \/ \E r \in DOMAIN reqs : ConnStatsGenerate(r)
  \/ \E r \in DOMAIN reqs : ConnStatsAcquire(r)
  \/ \E r \in DOMAIN reqs : ConnStatsSettle(r)
  \/ \E r \in DOMAIN reqs : ConnStatsCorrect(r)
  \/ \E r \in DOMAIN reqs : ConnFormat(r)
  \/ \E r \in DOMAIN reqs : ConnBettingParse(r)
  \/ \E r \in DOMAIN reqs : ConnSubAcquire(r)
  \/ \E r \in DOMAIN reqs : ConnSubSettle(r)
  \/ \E r \in DOMAIN reqs : ConnGatherReturns(r)
  \/ \E r \in DOMAIN reqs : ConnNewsEmbed(r)
  \/ \E r \in DOMAIN reqs : ConnNewsAcquire(r)
  \/ \E r \in DOMAIN reqs : ConnNewsSettle(r)
  \/ \E r \in DOMAIN reqs : ConnNewsSummarize(r)
SpecConn == InitConn /\ [][NextConn]_vars

\* the connections a request holds
HeldBy(r) == reqs[r].held + reqs[r].holding + reqs[r].news_held
\* a generation-port or embedding-port call is in flight
MainCalls(r) == reqs[r].main \in {"generate", "correct", "format", "parse"}
NewsBranchCalls(r) == reqs[r].news \in {"embed", "summarize"}

\* every connection in use is held for one query that is in flight
OneQueryPerConnection ==
  \A r \in DOMAIN reqs :
    /\ reqs[r].held = IF reqs[r].main = "fetch" THEN 1 ELSE 0
    /\ reqs[r].news_held = IF reqs[r].news = "fetch" THEN 1 ELSE 0
    /\ reqs[r].holding > 0 => reqs[r].main = "gather"

\* C33 (as stated): every connection is held for exactly one query and
\* released when it settles, and no connection is held by a request while a
\* generation-port or embedding-port call of the same request is in flight.
C33_NoConnectionDuringAnyCall ==
  /\ OneQueryPerConnection
  /\ \A r \in DOMAIN reqs : (MainCalls(r) \/ NewsBranchCalls(r)) => HeldBy(r) = 0

\* C33 (amended): every connection is held for exactly one query and released
\* when it settles, and no coroutine holds a connection while a generation or
\* embedding call of its own is in flight: the pipeline holds none during its
\* generation, correction, parsing and formatting calls, the news search
\* none during its embedding and summarization calls.  (The sub-queries of a
\* betting or preview gather may hold connections while the concurrent news
\* search of the same request is in its embedding or summarization call, and
\* the news search may hold one during the betting formatting call.)
C33_NoConnectionAcrossOwnCall ==
  /\ OneQueryPerConnection
  /\ \A r \in DOMAIN reqs :
       /\ MainCalls(r) => reqs[r].held = 0 /\ reqs[r].holding = 0
       /\ NewsBranchCalls(r) => reqs[r].news_held = 0

\* the stats pipeline is in its correction call after a failed first
\* execution and holds no connection
C33_Witness ==
  \E r \in DOMAIN reqs :
    /\ reqs[r].kind = "stats"
    /\ reqs[r].main = "correct"
    /\ in_use = 0

(***************************************************************************)
(* The opponent of a betting request                                       *)
(***************************************************************************)
\* the abbreviation the static table holds for a team reference, whatever
\* its letter case and the whitespace around it
InTable(j) ==
  IF j.t = "string" THEN TeamAbbr(strip(lower(j.s))) ELSE None

\* C34: the opponent abbreviation of answer_betting_question is the table's
\* abbreviation of the explicit opponent field when the table holds it;
\* otherwise that of the first entry of the teams list, in list order, the
\* table holds; otherwise there is none.  The lookup ignores letter case and
\* surrounding whitespace.
C34_OpponentResolution ==
  (~intent.none /\ planPc \in {"gather", "format", "returned"}) =>
    LET explicit == OpponentRaw(intent.v)
        teams == TeamsRaw(intent.v).a
        resolving == {n \in DOMAIN teams : ~InTable(teams[n]).none}
    IN  /\ opponent_abbr =
             IF ~InTable(explicit).none THEN InTable(explicit)
             ELSE IF resolving # {} THEN InTable(teams[Min(resolving)])
             ELSE None
        /\ raw.v = UNRESOLVED_OPPONENT_TEXT => opponent_abbr = Some("LAL")
        /\ raw.v = EXPLICIT_OPPONENT_TEXT => opponent_abbr = Some("BOS")

\* the explicit opponent did not resolve and the second team of the list did
C34_Witness ==
  /\ raw = Some(UNRESOLVED_OPPONENT_TEXT)
  /\ planPc = "returned"
  /\ opponent_abbr = Some("LAL")

(***************************************************************************)
(* The branch of the plan                                                  *)
(***************************************************************************)
\* the intent has no "type" member, so that line 311 supplies FIND_PICKS
TypeMissing(i) == \A n \in DOMAIN i.a : i.a[n].k # <<"type">>

KNOWN_TYPES == {<<"PROP_CHECK">>, <<"FIND_PICKS">>, <<"PARLAY">>, <<"GAME_PREVIEW">>}
TypeKnown(i) == IntentType(i).t = "string" /\ IntentType(i).s \in KNOWN_TYPES

\* the stages whose sub-queries one branch of lines 330-498 issues
BranchStages(i) ==
  LET t == IntentType(i)
  IN  IF t = JString(<<"PROP_CHECK">>) /\ Truthy(Players(i)) THEN {"prop_check"}
      ELSE IF t = JString(<<"FIND_PICKS">>) /\ Truthy(Players(i))
        THEN {"prefetch", "player", "defense"}
      ELSE IF t = JString(<<"FIND_PICKS">>) THEN {"scan", "scan_teams", "defense"}
      ELSE IF t = JString(<<"PARLAY">>) /\ Truthy(Props(i)) THEN {"parlay"}
      ELSE IF t = JString(<<"GAME_PREVIEW">>) THEN {"teams"}
      ELSE {"fallback"}

\* the intents the else branch of line 494 takes
FallsBack(i) ==
  \/ ~TypeKnown(i)
  \/ IntentType(i) = JString(<<"PROP_CHECK">>) /\ ~Truthy(Players(i))
  \/ IntentType(i) = JString(<<"PARLAY">>) /\ ~Truthy(Props(i))

PlanUnderWay == planPc \in {"gather", "format", "returned"} /\ ~intent.none
HoldsLeagueScan == <<"high_hit_rate_props">> \in DOMAIN collected

LaterPayload(s) ==
  /\ s.template = "schedule"
  /\ s.out \in {"today", "later"}
  /\ ScoresPayload(s.out).label # "Today"

ScheduleOnlyToday == \A j \in DOMAIN subs : LaterPayload(subs[j]) => subs[j].rows = <<>>

\* lines 384-392: the matchup query of a player is against the explicit
\* opponent whenever there is one
ExplicitOpponentWins ==
  \A j \in DOMAIN subs :
    (subs[j].stage = "player" /\ subs[j].template = "matchup" /\ ~opponent_abbr.none)
      => subs[j].params[2] = opponent_abbr.v

\* C36: the schedule holds today's games only: a payload of get_scores whose
\* label is not "Today" gives no team an opponent; and the explicit opponent
\* of the intent takes precedence over the opponent taken from the schedule
C36_ScheduleHoldsTodayOnly == ScheduleOnlyToday /\ ExplicitOpponentWins

(***************************************************************************)
(* Game previews on the bounded pool                                       *)
(***************************************************************************)
\* MaxRequests game previews at once, each in its gather of lines 196-199:
\* the queries of the plan and the news search
InitPool == PoolInit({"preview"}, MaxRequests)
NextPool ==
  \/ \E r \in DOMAIN reqs : ConnSubAcquire(r)
  \/ \E r \in DOMAIN reqs : ConnSubSettle(r)
  \/ \E r \in DOMAIN reqs : ConnNewsEmbed(r)
  \/ \E r \in DOMAIN reqs : ConnNewsAcquire(r)
  \/ \E r \in DOMAIN reqs : ConnNewsSettle(r)
  \/ \E r \in DOMAIN reqs : ConnNewsSummarize(r)
  \/ \E r \in DOMAIN reqs : ConnGatherReturns(r)
  \/ \E r \in DOMAIN reqs : ConnFormat(r)

\* the event loop does not stop while a coroutine can go on: every query that
\* has its connection returns, fails or times out (wait_for(..., 15.0) of
\* line 27), every port call returns, and a free connection is handed to a
\* coroutine that waits for one
FairPool == WF_vars(NextPool)
SpecPool == InitPool /\ [][NextPool]_vars /\ FairPool

RECURSIVE HeldUpTo(_)
HeldUpTo(n) == IF n = 0 THEN 0 ELSE HeldBy(n) + HeldUpTo(n - 1)

\* the connections in use are those the requests hold, and at most max_size
PoolBounded == in_use = HeldUpTo(Len(reqs)) /\ in_use <= 10

\* no query of the request waits for a connection or holds one
FanOutSettled(r) ==
  /\ reqs[r].waiting = 0 /\ reqs[r].holding = 0
  /\ reqs[r].news \notin {"acquire", "fetch"}

\* C37: the connections in use never exceed the 10 of the pool, and every
\* game preview, also with several previews at once, whose fan-out (the
\* queries of the plan plus the news lookup) is wider than the pool
\* eventually has all its queries settled and its gather returned
C37_BoundedPoolDrains ==
  /\ []PoolBounded
  /\ <>(\A r \in DOMAIN reqs : FanOutSettled(r) /\ reqs[r].main # "gather")

\* the pool is exhausted while every preview has queries waiting for a
\* connection, of a plan of 14
C37_Witness ==
  /\ PREVIEW_QUERIES = 14
  /\ Len(reqs) > 1
  /\ in_use = POOL_MAX
  /\ \A r \in DOMAIN reqs : reqs[r].waiting > 0 /\ reqs[r].holding > 0

(***************************************************************************)
(* The order of the writes of _cache                                       *)
(***************************************************************************)
\* the refreshes that have stored their result
StoredRefreshes == {n \in DOMAIN calls : calls[n].fetched /\ calls[n].done}

\* C38: fetched_at of the cache entry never decreases, and the entry of a
\* refresh is never overwritten by a refresh that started earlier: the entry
\* is that of the latest-started refresh among those that have stored, so no
\* refresh that has stored read the clock after fetched_at
C38_FetchedAtNeverDecreases ==
  \A n \in StoredRefreshes : ~cache.none /\ calls[n].start <= cache.v.ts

(***************************************************************************)
(* The entry a failed refresh leaves                                       *)
(***************************************************************************)
\* the latest call of caller c was a refresh that ended in the except clause
\* of lines 110-112 (or found no game on any day: the entry is the same)
StoredEmpty(c) ==
  /\ cur[c] # 0
  /\ calls[cur[c]].fetched /\ calls[cur[c]].done
  /\ callResult[c] = Some(EMPTY_PAYLOAD)

\* the latest call of caller d started when no call was in progress, after
\* the latest call of caller c and less than a TTL after its clock reading
CallsWithinTTL(c, d) ==
  /\ cur[d] > cur[c]
  /\ calls[cur[d]].done /\ ~calls[cur[d]].overlaps
  /\ calls[cur[d]].start - calls[cur[c]].start < CACHE_TTL

\* the call of d was handed the empty payload and made no upstream fetch
ServedEmpty(d) == ~calls[cur[d]].fetched /\ callResult[d] = Some(EMPTY_PAYLOAD)

\* C39: a refresh in which the upstream fetch raised stores the empty payload
\* labeled "Today", and every call in the 120 s that follow returns that
\* empty payload without another upstream fetch
C39_FailureCachedForTTL ==
  \A c \in Callers : \A d \in Callers \ {c} :
    (StoredEmpty(c) /\ CallsWithinTTL(c, d)) => ServedEmpty(d)

\* the same when no call of the run started while another was in progress
FailureCachedWithoutOverlap ==
  (\A a \in DOMAIN calls : ~calls[a].overlaps) => C39_FailureCachedForTTL

(***************************************************************************)
(* The generation calls of answer_stats_question                           *)
(***************************************************************************)
\* positions in the log of the generation calls of the stats pipeline
StatsGenCalls == GenCalls("sql") \cup GenCalls("correct") \cup GenCalls("format")
\* positions of the calls that generate a statement
StatementCalls == GenCalls("sql") \cup GenCalls("correct")

\* answer_stats_question returned before Step 4
StatsGaveUp == statsPc = "returned" /\ statsRet.results.none

\* C40: answer_stats_question makes at most three generation calls: one that
\* generates the statement, at most one that corrects it, at most one that
\* formats the rows, in that order; the formatting call is made only after an
\* execution succeeded; and on every return path without a successful
\* execution (rejection by the validator, timeout, second failure) results
\* is None, no formatting call was made and the sql returned is the last
\* statement generated.
C40_ThreeGenerationCalls ==
  /\ Cardinality(GenCalls("sql")) <= 1
  /\ Cardinality(GenCalls("correct")) <= 1
  /\ Cardinality(GenCalls("format")) <= 1
  /\ \A g \in GenCalls("sql") : \A k \in GenCalls("correct") : g < k
  /\ \A f \in GenCalls("format") :
       /\ \E e \in StatsExecs : e < f /\ log[e].out = "ok"
       /\ \A g \in StatementCalls : g < f
  /\ statsPc = "returned" =>
       (statsRet.results.none <=> \A e \in StatsExecs : log[e].out # "ok")
  /\ StatsGaveUp =>
       /\ GenCalls("format") = {}
       /\ StatementCalls # {}
       /\ statsRet.sql = CleanSql(log[Max(StatementCalls)].text)

\* both executions failed: generation and correction were called, formatting
\* was not, and the corrected statement is returned without rows
C40_Witness ==
  /\ StatsGaveUp
  /\ Cardinality(StatsExecs) = 2
  /\ \A e \in StatsExecs : log[e].out = "error"
  /\ GenCalls("correct") # {}
  /\ GenCalls("format") = {}
  /\ statsRet.sql = CleanSql(log[Max(GenCalls("correct"))].text)
  /\ statsRet.sql # CleanSql(log[Max(GenCalls("sql"))].text)

====
